---------------------------- MODULE Spec2Model ----------------------------
(***************************************************************************)
(* Changed-function extraction and code splicing (pranaycv/Phoenix).       *)
(*                                                                         *)
(*   SpecStrip   CommentHandler.RemoveComments, one loop iteration at a    *)
(*               time (extract_function_code_2.py)                         *)
(*   SpecDiff    the added / deleted / modified classification             *)
(*               (get_git_changes.py, auto_comment_cpp_code.py)            *)
(*   Spec        process_file: the per-function splice into the line       *)
(*               buffer (auto_comment_cpp_code.py)                         *)
(*   SpecNested  process_file on a file in which a changed function        *)
(*               encloses another changed function                         *)
(*   SpecShared  process_file for a file in which a row of code carries a   *)
(*               documentation comment                                     *)
(*   SpecLines   process_file for changed lines that need not be the start  *)
(*               of a function                                             *)
(*   SpecCollect collect_files_to_process over the changed paths, and the  *)
(*               functions process_file finds for each queued file         *)
(*   SpecAnnotate the inline annotations applied to one cleaned function   *)
(*   SpecReclean the inline annotations on a function with blank rows and  *)
(*               comment rows                                              *)
(*   SpecSummary the doc block taken from a summarize response             *)
(*   SpecGui     the Generate button, the worker threads and the review    *)
(*               log they share                                            *)
(*   SpecInfo    CppParser.GetFunctionInfo (generate_docs_ollama.py)       *)
(*   SpecRow     the rows of the parser against the lines of the buffer    *)
(*   SpecBatch   the batch driver and its file list (generate_docs_ollama) *)
(*   SpecReview  the review log over several runs with code verification   *)
(*   SpecRun     run_processing over a queue of files: the generator       *)
(*               calls, the review log, the writes                         *)
(*                                                                         *)
(* A text is a sequence of one-character strings; Python's 0-based indices *)
(* and half-open slices are kept, At and Slice translate them.             *)
(***************************************************************************)
EXTENDS Integers, Sequences, FiniteSets, TLC

VARIABLES
    text,          \* RemoveComments: the argument
    scan,          \* RemoveComments: the locals i, result, in_string, string_char
    out,           \* RemoveComments: the returned text
    spc,           \* RemoveComments: "scan" (in the while loop) or "done" (returned)
    old_functions, \* differ: key -> <<hash, start_line>> of the old snapshot
    new_functions, \* differ: key -> <<hash, start_line>> of the new snapshot
    added_keys,    \* differ: set(new_functions) - set(old_functions)
    deleted_keys,  \* differ: set(old_functions) - set(new_functions)
    modified_keys, \* differ: keys of both whose hashes differ
    changed_keys,  \* differ: added_keys | modified_keys
    dpc,           \* differ: "extracted", "printed" (ProcessChanges) or
                   \*         "collected" (collect_files_to_process)
    new_content,   \* process_file: the rows of the new snapshot, without newlines
    tree,          \* process_file: the function_definition nodes, in document order
    changed_lines, \* process_file: the 1-based start lines of the changed functions
    changed_nodes, \* process_file: the nodes found for them, sorted
    lines,         \* process_file: the line buffer
    pos,           \* process_file: how many of changed_nodes the loop has handled
    applied,       \* process_file: per handled node, the node, what the generator
                   \*               returned for it and by how much the buffer grew
    written,       \* process_file: the text written to the file
    ppc,           \* process_file: "start", "loop" or "written"
    cpath,         \* collect: the changed path of the current iteration: its
                   \*          status, extension and what the two snapshots hold
    cpos,          \* collect: how many changed paths have been examined
    files_to_process, \* collect: the queue
    changed_of,    \* collect: per queued file, the keys it classified as changed
    qpos,          \* run: how many queued files process_file has been called for
    handled,       \* run: per such file, the functions process_file found
    cpc,           \* collect: "collect", "queued" or "done"
    alines,        \* annotate: the cleaned lines of a function, then annotated
    inline_comments, \* annotate: the annotation list parsed from the response
    cleaned_before, \* annotate: the cleaned lines as they were before the loop
    apc,           \* annotate: "parsed" or "applied"
    document_code, \* run: the documentation option
    verify_code,   \* run: the code review option
    queue,         \* run: files_to_process, each file with its changed functions
    log_file,      \* run: code_review_log.json on disk
    reviewed_funcs, \* run: the (file, function) pairs loaded at the start
    fpos,          \* run: how many files of the queue are behind
    npos,          \* run: how many functions of the current file are behind
    rpc,           \* run: where run_processing stands
    attempt,       \* run: the attempt of the generator call in flight
    last_post,     \* run: how the latest POST ended
    api_response,  \* run: the kind of the response being handled
    cur_doxygen,   \* run: the doc block of the current function
    edits,         \* run: the edits made to the buffer of the current file
    disk,          \* run: what has been written to each file
    raised,        \* run: the exception that left run_processing
    last_doc_date, \* run: last_doc_date.json
    dox_response,  \* summary: the text the generator answered to summarize
    doc_block,     \* summary: the doc block taken from it
    doc_lines,     \* summary: the lines spliced in for it
    epc,           \* summary: "answered" or "extracted"
    generate_button, \* gui: whether the Generate button is enabled
    workers,       \* gui: the worker threads, each with its place and its copy of the log
    review_log,    \* gui: code_review_log.json, shared by the workers
    appended,      \* gui: the review records appended so far, in order
    stored_log, \* reviews: the records of code_review_log.json
    known_funcs, \* reviews: reviewed_funcs of the run in progress
    pending_funcs, \* reviews: the changed functions the run has yet to visit
    sent_reviews, \* reviews: the (file, function) pairs sent to the generator so far
    run_count, \* reviews: how many runs were started
    vpc, \* reviews: "between" (no run), "run" or "aborted"
    original_code, \* info: the decoded text of the file
    func_nodes, \* info: the function_definition nodes, with the parser's byte offsets and rows
    function_info, \* info: what GetFunctionInfo returned
    ipc, \* info: "parsed" or "done"
    source_text, \* rows: the content of the file, as characters
    fnode, \* rows: the node of a function, with the rows the parser reports
    buffer_lines, \* rows: lines = content.splitlines(keepends=True)
    taken_lines, \* rows: func_lines, the slice of the buffer taken for the node
    kpc, \* rows: "parsed" or "sliced"
    file_list, \* batch: the lines of file_processing_list.txt, each a sequence of words
    file_status, \* batch: what ReadFileStatus returned at the start of the run
    pending_files, \* batch: what GetPendingFiles returned
    bpos, \* batch: how many pending files the loop has behind it
    processed, \* batch: the calls of ProcessFile so far: run, file and outcome
    batch_runs, \* batch: how many runs of the driver were started
    bpc \* batch: "fresh", "loop", "complete" or "interrupted"

stripVars == <<text, scan, out, spc>>

diffVars == <<old_functions, new_functions, added_keys, deleted_keys, modified_keys,
              changed_keys, dpc>>

fileVars == <<new_content, tree, changed_lines, changed_nodes, lines, pos, applied,
              written, ppc>>

collectVars == <<cpath, cpos, files_to_process, changed_of, qpos, handled, cpc>>

annotateVars == <<alines, inline_comments, cleaned_before, apc>>

runVars == <<document_code, verify_code, queue, log_file, reviewed_funcs, fpos, npos,
             rpc, attempt, last_post, api_response, cur_doxygen, edits, disk, raised,
             last_doc_date>>

summaryVars == <<dox_response, doc_block, doc_lines, epc>>

guiVars == <<generate_button, workers, review_log, appended>>

reviewVars == <<stored_log, known_funcs, pending_funcs, sent_reviews, run_count, vpc>>

infoVars == <<original_code, func_nodes, function_info, ipc>>

rowVars == <<source_text, fnode, buffer_lines, taken_lines, kpc>>

batchVars == <<file_list, file_status, pending_files, bpos, processed, batch_runs, bpc>>

\* what the components other than the named one own
notStripVars == <<diffVars, fileVars, collectVars, annotateVars, runVars, summaryVars, guiVars, reviewVars, infoVars, rowVars, batchVars>>

notDiffVars == <<stripVars, collectVars, annotateVars, runVars, summaryVars, guiVars, reviewVars, infoVars, rowVars, batchVars>>

notFileVars == <<stripVars, diffVars, collectVars, annotateVars, runVars, summaryVars, guiVars, reviewVars, infoVars, rowVars, batchVars>>

notCollectVars == <<stripVars, diffVars, fileVars, annotateVars, runVars, summaryVars, guiVars, reviewVars, infoVars, rowVars, batchVars>>

notAnnotateVars == <<stripVars, diffVars, fileVars, collectVars, runVars, summaryVars, guiVars, reviewVars, infoVars, rowVars, batchVars>>

notRunVars == <<stripVars, diffVars, fileVars, collectVars, annotateVars, summaryVars, guiVars, reviewVars, infoVars, rowVars, batchVars>>

notSummaryVars == <<stripVars, diffVars, fileVars, collectVars, annotateVars, runVars, guiVars, reviewVars, infoVars, rowVars, batchVars>>

notGuiVars == <<stripVars, diffVars, fileVars, collectVars, annotateVars, runVars, summaryVars, reviewVars, infoVars, rowVars, batchVars>>

notReviewVars == <<stripVars, diffVars, fileVars, collectVars, annotateVars, runVars, summaryVars, guiVars, infoVars, rowVars, batchVars>>

notInfoVars == <<stripVars, diffVars, fileVars, collectVars, annotateVars, runVars, summaryVars, guiVars, reviewVars, rowVars, batchVars>>

notRowVars == <<stripVars, diffVars, fileVars, collectVars, annotateVars, runVars, summaryVars, guiVars, reviewVars, infoVars, batchVars>>

notBatchVars == <<stripVars, diffVars, fileVars, collectVars, annotateVars, runVars, summaryVars, guiVars, reviewVars, infoVars, rowVars>>

vars == <<stripVars, diffVars, fileVars, collectVars, annotateVars, runVars, summaryVars, guiVars, reviewVars, infoVars, rowVars, batchVars>>

-----------------------------------------------------------------------------
(* Bounds of the model *)

MaxLen == 6

NumKeys == 3

MaxLine == 2

NumRows == 4

MaxNodes == 2

MaxFuncs == 2

NumPaths == 2

MaxFuncLines == 3

MaxComments == 2

MaxQueue == 2

MaxChanged == 2

MaxDox == 7

MaxRuns == 3

MaxReviews == 2

\* the number of runs started one after another with code verification on
MaxReviewRuns == 2

\* the number of files whose functions are reviewed
NumReviewFiles == 2

\* the number of display names GetFunctionName gives
NumNames == 2

\* the number of changed functions a run visits
MaxPerRun == 2

\* the number of characters of a file given to GetFunctionInfo
MaxCode == 6

\* the number of characters of a file split into lines
MaxSource == 5

\* the number of files in file_processing_list.txt
MaxBatchFiles == 3

\* the number of runs of the batch driver
MaxBatchRuns == 2

-----------------------------------------------------------------------------
(* Python helpers *)

NL == "\n"

Min(a, b) == IF a < b THEN a ELSE b

Max(a, b) == IF a > b THEN a ELSE b

\* text[i], i 0-based
At(t, i) == t[i + 1]

\* text[a:b], 0-based and half-open, clamped to the text as Python does
Slice(t, a, b) == SubSeq(t, Min(a, Len(t)) + 1, Min(b, Len(t)))

\* the characters str.strip() and str.rstrip() remove
IsSpace(c) == c \in {" ", "\t", "\n", "\r", "\f"}

\* s.strip() == ''
StripIsEmpty(s) == \A k \in 1..Len(s) : IsSpace(s[k])

RECURSIVE RStrip(_)
\* line.rstrip()
RStrip(s) ==
    IF Len(s) > 0 /\ IsSpace(s[Len(s)]) THEN RStrip(SubSeq(s, 1, Len(s) - 1)) ELSE s

RECURSIVE SplitNL(_)
\* s.split('\n')
SplitNL(s) ==
    IF \E k \in 1..Len(s) : s[k] = NL
    THEN LET k == CHOOSE j \in 1..Len(s) : s[j] = NL /\ \A m \in 1..(j - 1) : s[m] # NL
         IN  <<SubSeq(s, 1, k - 1)>> \o SplitNL(SubSeq(s, k + 1, Len(s)))
    ELSE <<s>>

RECURSIVE JoinNL(_)
\* '\n'.join(ls)
JoinNL(ls) ==
    IF Len(ls) = 0 THEN <<>>
    ELSE IF Len(ls) = 1 THEN ls[1]
    ELSE ls[1] \o <<NL>> \o JoinNL(Tail(ls))

\* text.rfind('\n', 0, i): the last index below i holding a newline, or -1
RfindNL(t, i) ==
    IF \E k \in 0..(i - 1) : At(t, k) = NL
    THEN CHOOSE k \in 0..(i - 1) : At(t, k) = NL /\ \A m \in (k + 1)..(i - 1) : At(t, m) # NL
    ELSE -1

RECURSIVE LineEnd(_, _)
\* while i < length and text[i] != '\n': i += 1
LineEnd(t, i) ==
    IF i < Len(t) /\ At(t, i) # NL THEN LineEnd(t, i + 1) ELSE i

RECURSIVE BlockEnd(_, _)
\* the index where the block-comment loop meets '*' '/' (Len(t) when it never does)
BlockEnd(t, i) ==
    IF i < Len(t) /\ ~(At(t, i) = "*" /\ i + 1 < Len(t) /\ At(t, i + 1) = "/")
    THEN BlockEnd(t, i + 1)
    ELSE i

-----------------------------------------------------------------------------
(* CommentHandler.RemoveComments *)

ScanInit == [i |-> 0, result |-> <<>>, in_string |-> FALSE, string_char |-> ""]

\* a backslash inside a string ends the string like any other character would
InStringStepNoEscape(t, s) ==
    LET char == At(t, s.i) IN
    [s EXCEPT !.result = Append(@, char),
              !.in_string = (char # s.string_char),
              !.i = @ + 1]

\* the "if in_string:" branch
InStringStep(t, s) ==
    LET char == At(t, s.i) IN
    IF char = "\\"
    THEN IF s.i + 1 < Len(t)
         THEN [s EXCEPT !.result = @ \o <<char, At(t, s.i + 1)>>, !.i = @ + 2]
         ELSE [s EXCEPT !.result = Append(@, char), !.i = @ + 1]
    ELSE [s EXCEPT !.result = Append(@, char),
                   !.in_string = (char # s.string_char),
                   !.i = @ + 1]

\* the opening quote
OpenStringStep(t, s) ==
    [s EXCEPT !.in_string = TRUE,
              !.string_char = At(t, s.i),
              !.result = Append(@, At(t, s.i)),
              !.i = @ + 1]

\* the newline that ends a dropped comment is dropped with it
LineCommentStepEatsNewline(t, s) ==
    LET start_line == RfindNL(t, s.i) + 1
        from_start == Slice(t, start_line, s.i)
        e          == LineEnd(t, s.i + 2)
        stop       == IF e < Len(t) THEN e + 1 ELSE e
    IN  IF StripIsEmpty(from_start)
        THEN [s EXCEPT !.result = @ \o Slice(t, s.i, stop), !.i = stop]
        ELSE [s EXCEPT !.i = stop]

\* a comment counts as full-line only when it starts in column 0
LineCommentStepNoIndent(t, s) ==
    LET start_line == RfindNL(t, s.i) + 1
        from_start == Slice(t, start_line, s.i)
        e          == LineEnd(t, s.i + 2)
        stop       == IF e < Len(t) THEN e + 1 ELSE e
    IN  IF from_start = <<>>
        THEN [s EXCEPT !.result = @ \o Slice(t, s.i, stop), !.i = stop]
        ELSE [s EXCEPT !.result = @ \o Slice(t, e, stop), !.i = stop]

\* '/' '/' outside a string: kept when only whitespace precedes it on its
\* line, dropped up to (not including) the newline otherwise
LineCommentStep(t, s) ==
    LET start_line == RfindNL(t, s.i) + 1
        from_start == Slice(t, start_line, s.i)
        e          == LineEnd(t, s.i + 2)
        stop       == IF e < Len(t) THEN e + 1 ELSE e
    IN  IF StripIsEmpty(from_start)
        THEN [s EXCEPT !.result = @ \o <<"/", "/">> \o Slice(t, s.i + 2, stop), !.i = stop]
        ELSE [s EXCEPT !.result = @ \o Slice(t, e, stop), !.i = stop]

\* block comments are removed like inline comments
BlockCommentStepDrop(t, s) ==
    LET e    == BlockEnd(t, s.i + 2)
        stop == IF e < Len(t) THEN e + 2 ELSE e
    IN  [s EXCEPT !.i = stop]

\* '/' '*' outside a string: copied through the first following '*' '/'
BlockCommentStep(t, s) ==
    LET e    == BlockEnd(t, s.i + 2)
        stop == IF e < Len(t) THEN e + 2 ELSE e
    IN  [s EXCEPT !.result = @ \o <<"/", "*">> \o Slice(t, s.i + 2, e)
                               \o (IF e < Len(t) THEN <<"*", "/">> ELSE <<>>),
                  !.i = stop]

\* one iteration of "while i < length"
ScanStep(t, s) ==
    LET char == At(t, s.i) IN
    IF s.in_string THEN InStringStep(t, s)
    ELSE IF char = "\"" \/ char = "'" THEN OpenStringStep(t, s)
    ELSE IF char = "/" /\ s.i + 1 < Len(t) /\ At(t, s.i + 1) = "/" THEN LineCommentStep(t, s)
    ELSE IF char = "/" /\ s.i + 1 < Len(t) /\ At(t, s.i + 1) = "*" THEN BlockCommentStep(t, s)
    ELSE [s EXCEPT !.result = Append(@, char), !.i = @ + 1]

\* the post-pass: split at '\n', rstrip every line, join
TrimLines(r) ==
    LET split == SplitNL(r) IN
    JoinNL([k \in 1..Len(split) |-> RStrip(split[k])])

RECURSIVE ScanAll(_, _)
ScanAll(t, s) == IF s.i < Len(t) THEN ScanAll(t, ScanStep(t, s)) ELSE s

\* the whole function
RemoveComments(t) == TrimLines(ScanAll(t, ScanInit).result)

-----------------------------------------------------------------------------
(* RemoveComments as a state machine *)

Alphabet == {"/", "*", "\"", "'", "\\", NL, " ", "x"}

Texts == UNION {[1..n -> Alphabet] : n \in 0..MaxLen}

StripIdle ==
    /\ text = <<>>
    /\ scan = ScanInit
    /\ out = <<>>
    /\ spc = "idle"

StripInit ==
    /\ text \in Texts
    /\ scan = ScanInit
    /\ out = <<>>
    /\ spc = "scan"

\* one iteration of the while loop
ScanIter ==
    /\ spc = "scan"
    /\ scan.i < Len(text)
    /\ scan' = ScanStep(text, scan)
    /\ UNCHANGED <<text, out, spc>>
    /\ UNCHANGED notStripVars

\* the loop ends: trim and return
ScanReturn ==
    /\ spc = "scan"
    /\ ~(scan.i < Len(text))
    /\ out' = TrimLines(scan.result)
    /\ spc' = "done"
    /\ UNCHANGED <<text, scan>>
    /\ UNCHANGED notStripVars

-----------------------------------------------------------------------------
(* The differ: ChangeProcessor.ProcessChanges and collect_files_to_process *)

Keys == 1..NumKeys

Hashes == {"md5a", "md5b"}

\* what ExtractFunctions returns: a dict key -> (hash, start_line)
Mappings ==
    UNION {[ks -> Hashes \X (1..MaxLine)] : ks \in SUBSET Keys}

\* set(d)
KeySet(d) == DOMAIN d

\* the added set is not reduced by the old keys
AddedKeysAll(old, new) == KeySet(new)

\* set(new_functions) - set(old_functions)
AddedKeys(old, new) == KeySet(new) \ KeySet(old)

\* set(old_functions) - set(new_functions)
DeletedKeys(old, new) == KeySet(old) \ KeySet(new)

\* {k for k in set(old) & set(new) if old[k][0] != new[k][0]}
ModifiedKeys(old, new) ==
    {k \in KeySet(old) \cap KeySet(new) : old[k][1] # new[k][1]}

DiffIdle ==
    /\ old_functions = <<>>
    /\ new_functions = <<>>
    /\ added_keys = {}
    /\ deleted_keys = {}
    /\ modified_keys = {}
    /\ changed_keys = {}
    /\ dpc = "idle"

DiffInit ==
    /\ old_functions \in Mappings
    /\ new_functions \in Mappings
    /\ added_keys = {}
    /\ deleted_keys = {}
    /\ modified_keys = {}
    /\ changed_keys = {}
    /\ dpc = "extracted"

\* ProcessChanges: the three sets of one changed file
ProcessChangesClassify ==
    /\ dpc = "extracted"
    /\ added_keys' = AddedKeys(old_functions, new_functions)
    /\ deleted_keys' = DeletedKeys(old_functions, new_functions)
    /\ modified_keys' = ModifiedKeys(old_functions, new_functions)
    /\ dpc' = "printed"
    /\ UNCHANGED <<old_functions, new_functions, changed_keys>>
    /\ UNCHANGED <<notDiffVars, fileVars>>

\* the orders in which a set may be iterated
Orderings(S) ==
    {f \in [1..Cardinality(S) -> S] : \A i, j \in 1..Cardinality(S) : i # j => f[i] # f[j]}

\* collect_files_to_process: added, modified, their union and the start lines
\* of the changed functions, in the iteration order of the set
CollectClassify ==
    /\ dpc = "extracted"
    /\ added_keys' = AddedKeys(old_functions, new_functions)
    /\ modified_keys' = ModifiedKeys(old_functions, new_functions)
    /\ changed_keys' = added_keys' \cup modified_keys'
    /\ \E order \in Orderings(changed_keys') :
          changed_lines' = [r \in 1..Len(order) |-> new_functions[order[r]][2]]
    /\ dpc' = "collected"
    /\ UNCHANGED <<old_functions, new_functions, deleted_keys>>
    /\ UNCHANGED <<new_content, tree, changed_nodes, lines, pos, applied, written, ppc>>
    /\ UNCHANGED notDiffVars

-----------------------------------------------------------------------------
(* process_file: Python and parser helpers *)

\* ''.join(ls)
RECURSIVE Concat(_)
Concat(ls) == IF Len(ls) = 0 THEN <<>> ELSE ls[1] \o Concat(Tail(ls))

\* t.splitlines() of a text whose only line break is '\n'
SplitLinesPy(t) ==
    LET parts == SplitNL(t) IN
    IF parts[Len(parts)] = <<>> THEN SubSeq(parts, 1, Len(parts) - 1) ELSE parts

\* content.splitlines(keepends=True) of a text that ends in a newline
KeepEndsLines(content) == [r \in 1..Len(content) |-> content[r] \o <<NL>>]

\* s.rstrip('\r\n')
RECURSIVE RStripCRLF(_)
RStripCRLF(s) ==
    IF Len(s) > 0 /\ s[Len(s)] \in {"\r", NL} THEN RStripCRLF(SubSeq(s, 1, Len(s) - 1))
    ELSE s

\* s.startswith(p)
StartsWith(s, p) == Len(s) >= Len(p) /\ SubSeq(s, 1, Len(p)) = p

\* s.find(sub, from): the lowest index at or after from where sub occurs, or -1
Find(s, sub, from) ==
    LET f    == IF from < 0 THEN Max(Len(s) + from, 0) ELSE from
        hits == {k \in f..(Len(s) - Len(sub)) : Slice(s, k, k + Len(sub)) = sub}
    IN  IF hits = {} THEN -1 ELSE CHOOSE k \in hits : \A m \in hits : k <= m

\* a slice assignment that also takes the row after the range
SliceAssignWide(ls, a, b, repl) ==
    Slice(ls, 0, a) \o repl \o Slice(ls, Max(a, b + 1), Len(ls))

\* ls[a:b] = repl
SliceAssign(ls, a, b, repl) ==
    Slice(ls, 0, a) \o repl \o Slice(ls, Max(a, b), Len(ls))

\* the order list.sort(reverse=False) gives to elements with these keys:
\* ascending and stable
StableAscending(keys) ==
    LET Rank(i) == Cardinality({j \in 1..Len(keys) :
                        \/ keys[j] < keys[i]
                        \/ keys[j] = keys[i] /\ j < i})
    IN  [r \in 1..Len(keys) |-> CHOOSE i \in 1..Len(keys) : Rank(i) = r - 1]

\* the order list.sort(reverse=True) gives to elements with these keys:
\* descending and stable
StableDescending(keys) ==
    LET Rank(i) == Cardinality({j \in 1..Len(keys) :
                        \/ keys[j] > keys[i]
                        \/ keys[j] = keys[i] /\ j < i})
    IN  [r \in 1..Len(keys) |-> CHOOSE i \in 1..Len(keys) : Rank(i) = r - 1]

\* the elements of s in the given order
Permute(s, order) == [r \in 1..Len(s) |-> s[order[r]]]

\* key=lambda n: n.start_point[0]
StartRows(nodes) == [k \in 1..Len(nodes) |-> nodes[k].start_row]

\* key=lambda x: x['line']
CommentLineKeys(comments) == [k \in 1..Len(comments) |-> comments[k].line]

\* a row that is one '//' comment node
IsCommentRow(row) == StartsWith(row, <<"/", "/">>)

\* a row that holds code
IsCodeRow(row) == ~StripIsEmpty(row) /\ ~IsCommentRow(row)

\* CommentHandler.IsDoxygenComment
IsDoxygenComment(t) ==
    \/ StartsWith(t, <<"/", "*", "*">>)
    \/ StartsWith(t, <<"/", "*", "!">>)
    \/ StartsWith(t, <<"/", "/", "/">>)
    \/ StartsWith(t, <<"/", "/", "!">>)

\* a row of code that ends in a '//' comment
HasTrailingComment(row) == IsCodeRow(row) /\ Find(row, <<"/", "/">>, 0) # -1

\* the text of the comment node of a row: from its '//' on
CommentText(row) == Slice(row, Find(row, <<"/", "/">>, 0), Len(row))

RECURSIVE CommentRunAbove(_, _)
\* the rows of the comment siblings met going up from row r: blank rows hold
\* no node, a comment after code on its row is the last one met, a row of
\* code without a comment ends the run
CommentRunAbove(content, r) ==
    IF r < 0 THEN <<>>
    ELSE IF IsCommentRow(content[r + 1]) THEN Append(CommentRunAbove(content, r - 1), r)
    ELSE IF StripIsEmpty(content[r + 1]) THEN CommentRunAbove(content, r - 1)
    ELSE IF HasTrailingComment(content[r + 1]) THEN <<r>>
    ELSE <<>>

\* CommentHandler.GetPrecedingComments: the start rows of the comment nodes
\* that precede the node as siblings, farthest first
GetPrecedingComments(nodes, content, node) ==
    IF \E k \in 1..Len(nodes) : /\ nodes[k].start_row = node.start_row
                                /\ nodes[k].end_row > node.end_row
    THEN <<>>
    ELSE CommentRunAbove(content, node.start_row - 1)

\* doxygen_start_row if doxygen_start_row is not None else node.start_point[0]
EditStartRow(nodes, content, node) ==
    LET comments == GetPrecedingComments(nodes, content, node)
        doxygen_rows == {comments[k] : k \in {j \in 1..Len(comments) :
                                            IsDoxygenComment(
                                                CommentText(content[comments[j] + 1]))}}
    IN  IF doxygen_rows # {}
        THEN CHOOSE r \in doxygen_rows : \A q \in doxygen_rows : r <= q
        ELSE node.start_row

\* a function that starts on the line after the requested one is taken too
FindMatchesNearest(nodes, line_number) ==
    {k \in 1..Len(nodes) : \/ nodes[k].start_row + 1 = line_number
                           \/ nodes[k].start_row + 1 = line_number + 1}

\* CppParser.FindFunctionNode: the matches of the query, in document order
FindMatches(nodes, line_number) ==
    {k \in 1..Len(nodes) : nodes[k].start_row + 1 = line_number}

FindFunctionNode(nodes, line_number) ==
    nodes[CHOOSE k \in FindMatches(nodes, line_number) :
              \A m \in FindMatches(nodes, line_number) : k <= m]

\* lines 252-257: the nodes found for the changed lines, in the order of the list
FoundNodes(nodes, cl) ==
    LET found == {k \in 1..Len(cl) : FindMatches(nodes, cl[k]) # {}}
        Nth(r) == CHOOSE k \in found : Cardinality({j \in found : j < k}) = r - 1
    IN  [r \in 1..Cardinality(found) |-> FindFunctionNode(nodes, cl[Nth(r)])]

\* the nodes are handled from the top of the file down
ChangedNodesAscending(nodes, cl) ==
    LET found == FoundNodes(nodes, cl) IN
    Permute(found, StableAscending(StartRows(found)))

\* lines 252-259: the nodes found for the changed lines, last function first
ChangedNodes(nodes, cl) ==
    LET found == FoundNodes(nodes, cl) IN
    Permute(found, StableDescending(StartRows(found)))

\* the close marker is looked for from the start of the answer
ExtractDoxygenAnyClose(dox_comment) ==
    LET start_index == Find(dox_comment, <<"/", "*", "*">>, 0)
        end_index   == Find(dox_comment, <<"*", "/">>, 0)
    IN  IF start_index # -1 /\ end_index # -1
        THEN Slice(dox_comment, start_index, end_index + 2) \o <<NL>>
        ELSE <<>>

\* lines 294-296: the text from the first '/**' through the first '*/' after
\* it, with a newline, or nothing
ExtractDoxygen(dox_comment) ==
    LET start_index == Find(dox_comment, <<"/", "*", "*">>, 0)
        end_index   == Find(dox_comment, <<"*", "/">>, start_index)
    IN  IF start_index # -1 /\ end_index # -1
        THEN Slice(dox_comment, start_index, end_index + 2) \o <<NL>>
        ELSE <<>>

\* line 330: the lines of the doc block, each with its newline
DoxygenLines(doxygen) ==
    LET split == SplitLinesPy(doxygen) IN [k \in 1..Len(split) |-> split[k] \o <<NL>>]

RECURSIVE ApplyCommentsClamped(_, _)
\* an annotation beyond the last line lands on the last line
ApplyCommentsClamped(clean_func_lines, comments) ==
    IF Len(comments) = 0 THEN clean_func_lines
    ELSE LET comment  == Head(comments)
             line_idx == Min(comment.line - 1, Len(clean_func_lines) - 1)
         IN  ApplyCommentsClamped(
                 IF 0 <= line_idx /\ line_idx < Len(clean_func_lines)
                 THEN [clean_func_lines EXCEPT ![line_idx + 1] =
                          RStripCRLF(@) \o <<"\t", " ", "/", "/", " ">>
                                        \o comment.comment \o <<NL>>]
                 ELSE clean_func_lines,
                 Tail(comments))

RECURSIVE ApplyCommentsInserting(_, _)
\* an annotation becomes a line of its own above the line it names
ApplyCommentsInserting(clean_func_lines, comments) ==
    IF Len(comments) = 0 THEN clean_func_lines
    ELSE LET comment  == Head(comments)
             line_idx == comment.line - 1
         IN  ApplyCommentsInserting(
                 IF 0 <= line_idx /\ line_idx < Len(clean_func_lines)
                 THEN SubSeq(clean_func_lines, 1, line_idx)
                      \o <<<<"/", "/", " ">> \o comment.comment \o <<NL>>>>
                      \o SubSeq(clean_func_lines, line_idx + 1, Len(clean_func_lines))
                 ELSE clean_func_lines,
                 Tail(comments))

RECURSIVE ApplyComments(_, _)
\* lines 323-327, for comments already sorted
ApplyComments(clean_func_lines, comments) ==
    IF Len(comments) = 0 THEN clean_func_lines
    ELSE LET comment  == Head(comments)
             line_idx == comment.line - 1
         IN  ApplyComments(
                 IF 0 <= line_idx /\ line_idx < Len(clean_func_lines)
                 THEN [clean_func_lines EXCEPT ![line_idx + 1] =
                          RStripCRLF(@) \o <<"\t", " ", "/", "/", " ">>
                                        \o comment.comment \o <<NL>>]
                 ELSE clean_func_lines,
                 Tail(comments))

\* lines 321-327: the annotations sorted by line, last line first, and applied
AnnotateLines(clean_func_lines, comments) ==
    ApplyComments(clean_func_lines,
                  Permute(comments, StableDescending(CommentLineKeys(comments))))

\* lines 271-330: the rows that replace the function, from its rows in the
\* buffer and the two generator responses
BuildReplacement(func_lines, dox_comment, comments) ==
    LET func_text        == Concat(func_lines)
        clean_text       == RemoveComments(func_text)
        clean_lines      == SplitLinesPy(clean_text)
        clean_func_lines == [k \in 1..Len(clean_lines) |-> clean_lines[k] \o <<NL>>]
        doxygen          == ExtractDoxygen(dox_comment)
        annotated        == AnnotateLines(clean_func_lines, comments)
    IN  DoxygenLines(doxygen) \o annotated

-----------------------------------------------------------------------------
(* process_file as a state machine *)

\* a row of code, a row of code with an inline comment, a '///' comment, a
\* plain '//' comment
RowTexts == {<<"x">>, <<"x", "/", "/">>, <<"/", "/", "/">>, <<"/", "/">>}

Contents == [1..NumRows -> RowTexts]

Node(a, b) == [start_row |-> a, end_row |-> b]

\* m lies within n
Inside(m, n) == n.start_row <= m.start_row /\ m.end_row <= n.end_row

Disjoint(m, n) == m.end_row < n.start_row \/ n.end_row < m.start_row

\* function definitions start and end on a row of code, and nest or lie
\* apart; the sets of at most max of them
NodeSetsUpTo(content, max) ==
    LET rows == 0..(Len(content) - 1)
        all  == {Node(a, b) : a \in rows, b \in rows}
        ok   == {n \in all : /\ n.start_row <= n.end_row
                             /\ IsCodeRow(content[n.start_row + 1])
                             /\ IsCodeRow(content[n.end_row + 1])}
    IN  {S \in SUBSET ok :
            /\ Cardinality(S) \in 1..max
            /\ \A m, n \in S : m = n \/ Disjoint(m, n) \/ Inside(m, n) \/ Inside(n, m)}

NodeSets(content) == NodeSetsUpTo(content, MaxNodes)

\* the captures of the query: by start, the enclosing node first
DocumentOrder(S) ==
    LET Before(m, n) == \/ m.start_row < n.start_row
                        \/ m.start_row = n.start_row /\ m.end_row > n.end_row
        Rank(n) == Cardinality({m \in S : Before(m, n)})
    IN  [r \in 1..Cardinality(S) |-> CHOOSE n \in S : Rank(n) = r - 1]

\* what the generator may answer to summarize: a text without the markers
\* or a two-line block
DoxResponses ==
    {<<"x">>, <<"/", "*", "*", NL, "*", "/">>}

\* what inlineAnnotate may yield: no annotation or one, on line 1 or 2
CommentLists ==
    {<<>>} \cup {<<[line |-> n, comment |-> <<"c">>]>> : n \in 1..2}

FileIdle ==
    /\ new_content = <<>>
    /\ tree = <<>>
    /\ changed_lines = <<>>
    /\ changed_nodes = <<>>
    /\ lines = <<>>
    /\ pos = 0
    /\ applied = <<>>
    /\ written = <<>>
    /\ ppc = "idle"

\* process_file is called with a snapshot, its parse and a non-empty list of
\* start lines of functions of that snapshot
FileInit ==
    /\ new_content \in Contents
    /\ \E S \in NodeSets(new_content) :
          /\ tree = DocumentOrder(S)
          /\ \E C \in SUBSET (1..Cardinality(S)) :
                /\ C # {}
                /\ changed_lines =
                      [r \in 1..Cardinality(C) |->
                          tree[CHOOSE k \in C : Cardinality({j \in C : j < k}) = r - 1]
                              .start_row + 1]
    /\ changed_nodes = <<>>
    /\ lines = <<>>
    /\ pos = 0
    /\ applied = <<>>
    /\ written = <<>>
    /\ ppc = "start"

\* process_file is called for a file in which a changed function encloses
\* another changed function, next to at most one unchanged function; the two
\* start lines differ, so the order in which they are listed has no effect
\* on the sorted nodes
NestedInit ==
    /\ new_content \in Contents
    /\ \E S \in NodeSetsUpTo(new_content, MaxNodes + 1) :
          /\ tree = DocumentOrder(S)
          /\ \E m, n \in S :
                /\ Inside(m, n)
                /\ m.start_row > n.start_row
                /\ changed_lines = <<n.start_row + 1, m.start_row + 1>>
    /\ changed_nodes = <<>>
    /\ lines = <<>>
    /\ pos = 0
    /\ applied = <<>>
    /\ written = <<>>
    /\ ppc = "start"

\* a row of code followed on the same row by a '///' comment
DocTrailingRow == <<"x", "/", "/", "/">>

\* process_file is called for one changed function of a file in which a row
\* of code carries a '///' comment
SharedInit ==
    /\ new_content \in [1..NumRows -> RowTexts \cup {DocTrailingRow}]
    /\ \E r \in 1..NumRows : new_content[r] = DocTrailingRow
    /\ \E S \in NodeSets(new_content) :
          /\ tree = DocumentOrder(S)
          /\ \E n \in S : changed_lines = <<n.start_row + 1>>
    /\ changed_nodes = <<>>
    /\ lines = <<>>
    /\ pos = 0
    /\ applied = <<>>
    /\ written = <<>>
    /\ ppc = "start"

\* process_file is called with start lines that need not be those of the
\* parse: any one or two lines of a file of code rows, or the line after its
\* last
LinesInit ==
    /\ new_content = [i \in 1..NumRows |-> <<"x">>]
    /\ \E S \in NodeSets(new_content) : tree = DocumentOrder(S)
    /\ changed_lines \in UNION {[1..n -> 1..(NumRows + 1)] : n \in 1..MaxNodes}
    /\ changed_nodes = <<>>
    /\ lines = <<>>
    /\ pos = 0
    /\ applied = <<>>
    /\ written = <<>>
    /\ ppc = "start"

\* lines 249-262: find the changed nodes, sort them, split the content
FindChanged ==
    /\ ppc = "start"
    /\ changed_nodes' = ChangedNodes(tree, changed_lines)
    /\ lines' = KeepEndsLines(new_content)
    /\ ppc' = "loop"
    /\ UNCHANGED <<new_content, tree, changed_lines, pos, applied, written>>
    /\ UNCHANGED notFileVars

\* lines 264-331: one iteration of "for node in changed_nodes"
ProcessNode ==
    /\ ppc = "loop"
    /\ pos < Len(changed_nodes)
    /\ \E dox_comment \in DoxResponses, comments \in CommentLists :
          LET node       == changed_nodes[pos + 1]
              func_lines == Slice(lines, node.start_row, node.end_row + 1)
              start_row  == EditStartRow(tree, new_content, node)
              end_row    == node.end_row
              replacement_lines == BuildReplacement(func_lines, dox_comment, comments)
              buffer     == SliceAssign(lines, start_row, end_row + 1, replacement_lines)
          IN  /\ lines' = buffer
              /\ applied' = Append(applied, [node        |-> node,
                                             dox_comment |-> dox_comment,
                                             comments    |-> comments,
                                             delta       |-> Len(buffer) - Len(lines)])
    /\ pos' = pos + 1
    /\ UNCHANGED <<new_content, tree, changed_lines, changed_nodes, written, ppc>>
    /\ UNCHANGED notFileVars

\* lines 365-368: write the buffer
WriteFile ==
    /\ ppc = "loop"
    /\ pos = Len(changed_nodes)
    /\ written' = Concat(lines)
    /\ ppc' = "written"
    /\ UNCHANGED <<new_content, tree, changed_lines, changed_nodes, lines, pos, applied>>
    /\ UNCHANGED notFileVars

-----------------------------------------------------------------------------
(* collect_files_to_process and the lookup of the changed functions *)

\* what GetNewContent and GetOldContent return: None, or a text
NoContent == [ok |-> FALSE, functions |-> <<>>]

Content(c) == [ok |-> TRUE, functions |-> c]

FuncKeys == 1..MaxFuncs

\* a function definition with a body, as ExtractFunctions reads it: the text
\* of its declarator, the md5 of its text, its 1-based start line
FuncRecords == [key : FuncKeys, hash : Hashes, line : 1..MaxLine]

\* the function definitions of a text, in document order
FunctionLists ==
    {c \in UNION {[1..n -> FuncRecords] : n \in 0..MaxFuncs} :
        \A i, j \in 1..Len(c) : i < j => c[i].line <= c[j].line}

\* the new snapshot, as far as the differ reads it; its functions have the
\* hash "md5a", so that the hash in the old snapshot says whether a function's
\* text has changed
Snapshots == {c \in FunctionLists : \A i \in 1..Len(c) : c[i].hash = "md5a"}

\* the old snapshot: its start lines are never read
OldSnapshots == {c \in FunctionLists : \A i \in 1..Len(c) : c[i].line = 1}

\* FunctionExtractor.ExtractFunctions: functions[key] = (func_hash, start_line),
\* a later function with the same key overwrites an earlier one
ExtractFunctions(content) ==
    [k \in {content[i].key : i \in 1..Len(content)} |->
        LET last == CHOOSE i \in 1..Len(content) :
                        /\ content[i].key = k
                        /\ \A j \in 1..Len(content) : content[j].key = k => j <= i
        IN  <<content[last].hash, content[last].line>>]

\* a changed path: the status git reports, whether it ends in a C++ extension,
\* what GetNewContent and GetOldContent return for it.  What the code never
\* reads (the old snapshot of an added path, both snapshots of a path that
\* is skipped at once) is left at None.
PathRecords ==
    {r \in [status      : {"M", "A", "D"},
            cxx         : BOOLEAN,
            new_content : {Content(c) : c \in Snapshots} \cup {NoContent},
            old_content : {Content(c) : c \in OldSnapshots} \cup {NoContent}] :
        /\ r.status = "A" => r.old_content = NoContent
        /\ r.status = "D" => r.old_content = NoContent
        /\ ~r.cxx => r.status = "M" /\ r.old_content = NoContent}

\* before the first iteration
NoPath == [status |-> "none", cxx |-> FALSE, new_content |-> NoContent,
           old_content |-> NoContent]

\* lines 210-211: the path is skipped before anything is read
SkippedAtOnce(r) == ~r.cxx \/ r.status = "D"

\* a missing old snapshot makes the path skip
OldFunctionsOrSkip(r) ==
    IF r.status \in {"M", "R", "C"} /\ r.old_content.ok
    THEN ExtractFunctions(r.old_content.functions)
    ELSE IF r.status \in {"M", "R", "C"}
    THEN ExtractFunctions(r.new_content.functions)
    ELSE <<>>

\* lines 217-222: old_functions
OldFunctionsOf(r) ==
    IF r.status \in {"M", "R", "C"} /\ r.old_content.ok
    THEN ExtractFunctions(r.old_content.functions)
    ELSE <<>>

\* lines 226-228: changed_keys of a path whose new snapshot was read
ChangedKeysOf(r) ==
    LET old == OldFunctionsOf(r)
        new == ExtractFunctions(r.new_content.functions)
    IN  AddedKeys(old, new) \cup ModifiedKeys(old, new)

\* lines 210-233: the path reaches files_to_process.append
Queued(r) ==
    /\ ~SkippedAtOnce(r)
    /\ r.new_content.ok
    /\ ChangedKeysOf(r) # {}

\* the captures of FindFunctionNode's query for a snapshot
NodesOf(content) ==
    [i \in 1..Len(content) |-> [start_row |-> content[i].line - 1, index |-> i]]

CollectIdle ==
    /\ cpath = NoPath
    /\ cpos = 0
    /\ files_to_process = <<>>
    /\ changed_of = <<>>
    /\ qpos = 0
    /\ handled = <<>>
    /\ cpc = "idle"

CollectInit ==
    /\ cpath = NoPath
    /\ cpos = 0
    /\ files_to_process = <<>>
    /\ changed_of = <<>>
    /\ qpos = 0
    /\ handled = <<>>
    /\ cpc = "collect"

\* lines 210-235: one iteration of "for path, status in changed.items()"
CollectPath ==
    /\ cpc = "collect"
    /\ cpos < NumPaths
    /\ \E r \in PathRecords :
          /\ cpath' = r
          /\ IF Queued(r)
             THEN \E order \in Orderings(ChangedKeysOf(r)) :
                     LET functions == ExtractFunctions(r.new_content.functions) IN
                     /\ files_to_process' =
                           Append(files_to_process,
                                  [path          |-> cpos + 1,
                                   new_content   |-> r.new_content.functions,
                                   new_functions |-> functions,
                                   changed_lines |-> [k \in 1..Len(order) |->
                                                         functions[order[k]][2]]])
                     /\ changed_of' = Append(changed_of, ChangedKeysOf(r))
             ELSE UNCHANGED <<files_to_process, changed_of>>
    /\ cpos' = cpos + 1
    /\ UNCHANGED <<qpos, handled, cpc>>
    /\ UNCHANGED notCollectVars

\* line 237: return files_to_process
CollectReturn ==
    /\ cpc = "collect"
    /\ cpos = NumPaths
    /\ cpc' = "queued"
    /\ UNCHANGED <<cpath, cpos, files_to_process, changed_of, qpos, handled>>
    /\ UNCHANGED notCollectVars

\* run_processing lines 418-420 with process_file lines 249-259: the next
\* queued file is parsed and the nodes for its changed lines are found; they
\* are the functions the loop splices
ProcessQueued ==
    /\ cpc = "queued"
    /\ qpos < Len(files_to_process)
    /\ LET file == files_to_process[qpos + 1] IN
       handled' = Append(handled,
                         [path    |-> file.path,
                          spliced |-> ChangedNodes(NodesOf(file.new_content),
                                                   file.changed_lines)])
    /\ qpos' = qpos + 1
    /\ UNCHANGED <<cpath, cpos, files_to_process, changed_of, cpc>>
    /\ UNCHANGED notCollectVars

\* the loop over files_to_process ends
QueueDone ==
    /\ cpc = "queued"
    /\ qpos = Len(files_to_process)
    /\ cpc' = "done"
    /\ UNCHANGED <<cpath, cpos, files_to_process, changed_of, qpos, handled>>
    /\ UNCHANGED notCollectVars

-----------------------------------------------------------------------------
(* The inline annotations of one function (process_file lines 321-327) *)

\* a cleaned line of code, with its newline
CleanLines == {<<"x", NL>>, <<"y", NL>>}

\* the line numbers the generator may name: below the first line, the lines of
\* the function, above its last line
AnnotationLines == 0..(MaxFuncLines + 1)

Annotations == [line : AnnotationLines, comment : {<<"c">>, <<"d">>}]

AnnotateIdle ==
    /\ alines = <<>>
    /\ inline_comments = <<>>
    /\ cleaned_before = <<>>
    /\ apc = "idle"

\* line 278 and lines 309-312: the cleaned lines and the parsed list
AnnotateInit ==
    /\ alines \in UNION {[1..n -> CleanLines] : n \in 1..MaxFuncLines}
    /\ inline_comments \in UNION {[1..n -> Annotations] : n \in 0..MaxComments}
    /\ cleaned_before = alines
    /\ apc = "parsed"

\* lines 321-327: sort and apply
AnnotateApply ==
    /\ apc = "parsed"
    /\ alines' = AnnotateLines(alines, inline_comments)
    /\ apc' = "applied"
    /\ UNCHANGED <<inline_comments, cleaned_before>>
    /\ UNCHANGED notAnnotateVars

\* the rows a function may have: code, a blank row, a full-line comment, code
\* with a trailing comment, the opening of a block comment
FuncRows == {<<"x">>, <<>>, <<"/", "/", "x">>, <<"x", "/", "/", "x">>, <<"/", "*">>}

\* lines 271-278: the cleaned lines of the rows of a function
CleanFuncLines(func_lines) ==
    LET func_text   == Concat(func_lines)
        clean_text  == RemoveComments(func_text)
        clean_lines == SplitLinesPy(clean_text)
    IN  [k \in 1..Len(clean_lines) |-> clean_lines[k] \o <<NL>>]

\* lines 271-278 and 309-312: the function is cleaned, the list is parsed
RecleanInit ==
    /\ \E func_rows \in UNION {[1..n -> FuncRows] : n \in 1..MaxFuncLines} :
          alines = CleanFuncLines(KeepEndsLines(func_rows))
    /\ inline_comments \in UNION {[1..n -> Annotations] : n \in 0..MaxComments}
    /\ cleaned_before = alines
    /\ apc = "parsed"

-----------------------------------------------------------------------------
(* run_processing: the queue of files, the generator calls, the review log *)

\* _call_api line 62
max_retries == 3

\* the attempt after which a timeout is retried once more than the bound
LastAttemptLate(n) == n = max_retries

\* _call_api line 71: attempt == max_retries - 1
LastAttempt(n) == n = max_retries - 1

\* the paths of the changed files, by number
RunPaths == 1..MaxQueue

\* the names GetFunctionName gives the changed functions of a file, by number
ChangedNames == {[i \in 1..n |-> i] : n \in 1..MaxChanged}

\* what collect_files_to_process may return: up to MaxQueue files, each path
\* once, each with up to MaxChanged changed functions
Queues ==
    {q \in UNION {[1..n -> [path : RunPaths, funcs : ChangedNames]] : n \in 1..MaxQueue} :
        \A i, j \in 1..Len(q) : i # j => q[i].path # q[j].path}

\* a record of the review log
ReviewRecord(path, func_name, glitches) ==
    [file |-> path, function |-> func_name, glitches |-> glitches]

\* code_review_log.json: absent, not JSON, or a list of records
LogFiles ==
    {[kind |-> "missing", entries |-> <<>>],
     [kind |-> "corrupt", entries |-> <<>>],
     [kind |-> "list", entries |-> <<>>],
     [kind |-> "list", entries |-> <<ReviewRecord(1, 1, "found")>>]}

\* no file of the run has been written
NoDisk == [p \in RunPaths |-> [written |-> FALSE, edits |-> <<>>]]

\* the file keeps every write made before this one
WriteCleanCodeTruncating(files, path, content) ==
    [p \in DOMAIN files |->
        IF p = path THEN [written |-> TRUE, edits |-> content]
        ELSE [written |-> FALSE, edits |-> <<>>]]

\* FileIOHandler.WriteCleanCode
WriteCleanCode(files, path, content) ==
    [files EXCEPT ![path] = [written |-> TRUE, edits |-> content]]

\* line 414: the pairs of the records loaded from the log
ReviewedFuncs(master_log) ==
    {<<master_log[k].file, master_log[k].function>> : k \in 1..Len(master_log)}

CurFile == queue[fpos + 1]

CurFunc == CurFile.funcs[npos + 1]

\* the loop of process_file is left after its first function
AfterFunctionLeave == "write"

\* where the loop of process_file goes after a function
AfterFunction == IF npos + 1 = Len(CurFile.funcs) THEN "write" ELSE "function"

\* the loop over the queue ends after its first file
AfterFileLeave == "finish"

\* where run_processing goes after a file
AfterFile == IF fpos + 1 = Len(queue) THEN "finish" ELSE "function"

\* lines 333-337: review the function unless it is among the reviewed ones
ReviewOrNext ==
    IF verify_code /\ <<CurFile.path, CurFunc>> \notin reviewed_funcs
    THEN "GenerateCodeReviewLog"
    ELSE AfterFunction

\* the generator calls and the states in which their response is handled
ResponsePc(call) ==
    CASE call = "GenerateDoc" -> "doc_response"
      [] call = "GenerateCodeComment" -> "comment_response"
      [] call = "GenerateCodeReviewLog" -> "review_response"

\* what the model may answer: to summarize a text with or without the
\* markers; to inlineAnnotate an array of annotations, a text that is not
\* JSON, or JSON of another shape; to the review an object, a text that is
\* not JSON, or JSON of another shape
ResponseKinds(call) ==
    CASE call = "GenerateDoc" -> {"block", "nomarker"}
      [] call = "GenerateCodeComment" -> {"array", "notjson", "badshape"}
      [] call = "GenerateCodeReviewLog" -> {"object", "notjson", "badshape"}

RunIdle ==
    /\ document_code = FALSE
    /\ verify_code = FALSE
    /\ queue = <<>>
    /\ log_file = [kind |-> "missing", entries |-> <<>>]
    /\ reviewed_funcs = {}
    /\ fpos = 0
    /\ npos = 0
    /\ rpc = "idle"
    /\ attempt = 0
    /\ last_post = "none"
    /\ api_response = "none"
    /\ cur_doxygen = "none"
    /\ edits = <<>>
    /\ disk = NoDisk
    /\ raised = "none"
    /\ last_doc_date = "old"

\* run_processing is started with the two options, the changes of the
\* repository and whatever log an earlier run left
RunInit ==
    /\ document_code \in BOOLEAN
    /\ verify_code \in BOOLEAN
    /\ queue \in Queues
    /\ log_file \in LogFiles
    /\ reviewed_funcs = {}
    /\ fpos = 0
    /\ npos = 0
    /\ rpc = "connect"
    /\ attempt = 0
    /\ last_post = "none"
    /\ api_response = "none"
    /\ cur_doxygen = "none"
    /\ edits = <<>>
    /\ disk = NoDisk
    /\ raised = "none"
    /\ last_doc_date = "old"

\* lines 380-384: the generator is built, or the run returns
Connect ==
    /\ rpc = "connect"
    /\ \E reachable \in BOOLEAN : rpc' = IF reachable THEN "load" ELSE "returned"
    /\ UNCHANGED <<document_code, verify_code, queue, log_file, reviewed_funcs, fpos,
                   npos, attempt, last_post, api_response, cur_doxygen, edits, disk,
                   raised, last_doc_date>>
    /\ UNCHANGED notRunVars

\* lines 391-414: the review log is loaded once
LoadReviewLog ==
    /\ rpc = "load"
    /\ reviewed_funcs' = IF log_file.kind = "list" THEN ReviewedFuncs(log_file.entries)
                         ELSE {}
    /\ rpc' = "function"
    /\ UNCHANGED <<document_code, verify_code, queue, log_file, fpos, npos, attempt,
                   last_post, api_response, cur_doxygen, edits, disk, raised,
                   last_doc_date>>
    /\ UNCHANGED notRunVars

\* lines 264-280 and 333-337: a function is taken from the list; without the
\* documentation option nothing is generated for its text
StartFunction ==
    /\ rpc = "function"
    /\ rpc' = IF document_code THEN "GenerateDoc" ELSE ReviewOrNext
    /\ npos' = IF rpc' \in {"write", "function"} THEN npos + 1 ELSE npos
    /\ attempt' = 0
    /\ cur_doxygen' = "none"
    /\ UNCHANGED <<document_code, verify_code, queue, log_file, reviewed_funcs, fpos,
                   last_post, api_response, edits, disk, raised, last_doc_date>>
    /\ UNCHANGED notRunVars

\* _call_api lines 63-74: one POST of the call in flight
Post ==
    /\ rpc \in {"GenerateDoc", "GenerateCodeComment", "GenerateCodeReviewLog"}
    /\ \E outcome \in {"response", "Timeout", "RequestException"} :
          /\ last_post' = outcome
          /\ IF outcome = "response"
             THEN /\ rpc' = ResponsePc(rpc)
                  /\ api_response' \in ResponseKinds(rpc)
                  /\ UNCHANGED <<attempt, raised>>
             ELSE IF outcome = "Timeout" /\ ~LastAttempt(attempt)
             THEN /\ attempt' = attempt + 1
                  /\ UNCHANGED <<rpc, api_response, raised>>
             ELSE /\ rpc' = "aborted"
                  /\ raised' = "ConnectionError"
                  /\ UNCHANGED <<attempt, api_response>>
    /\ UNCHANGED <<document_code, verify_code, queue, log_file, reviewed_funcs, fpos,
                   npos, cur_doxygen, edits, disk, last_doc_date>>
    /\ UNCHANGED notRunVars

\* lines 293-307: the doc block is cut out of the answer; the annotations are
\* asked for
AfterDoc ==
    /\ rpc = "doc_response"
    /\ cur_doxygen' = IF api_response = "block" THEN "block" ELSE "empty"
    /\ rpc' = "GenerateCodeComment"
    /\ attempt' = 0
    /\ api_response' = "none"
    /\ UNCHANGED <<document_code, verify_code, queue, log_file, reviewed_funcs, fpos,
                   npos, last_post, edits, disk, raised, last_doc_date>>
    /\ UNCHANGED notRunVars

\* lines 308-337: the annotations are parsed, sorted and applied, the function
\* is replaced in the buffer
AfterComment ==
    /\ rpc = "comment_response"
    /\ api_response' = "none"
    /\ IF api_response = "badshape"
       THEN /\ rpc' = "aborted"
            /\ raised' = "TypeError"
            /\ UNCHANGED <<edits, npos, attempt>>
       ELSE /\ edits' = Append(edits,
                           [function |-> CurFunc,
                            doxygen  |-> cur_doxygen,
                            comments |-> IF api_response = "array" THEN "some" ELSE "empty"])
            /\ rpc' = ReviewOrNext
            /\ npos' = IF rpc' \in {"write", "function"} THEN npos + 1 ELSE npos
            /\ attempt' = 0
            /\ UNCHANGED raised
    /\ UNCHANGED <<document_code, verify_code, queue, log_file, reviewed_funcs, fpos,
                   last_post, cur_doxygen, disk, last_doc_date>>
    /\ UNCHANGED notRunVars

\* lines 339-363: the review is parsed and appended to the log on disk
AfterReview ==
    /\ rpc = "review_response"
    /\ api_response' = "none"
    /\ IF api_response = "badshape"
       THEN /\ rpc' = "aborted"
            /\ raised' = "TypeError"
            /\ UNCHANGED <<log_file, npos>>
       ELSE IF log_file.kind = "corrupt"
       THEN /\ rpc' = "aborted"
            /\ raised' = "JSONDecodeError"
            /\ UNCHANGED <<log_file, npos>>
       ELSE LET review_data ==
                    ReviewRecord(CurFile.path, CurFunc,
                                 IF api_response = "object" THEN "found"
                                 ELSE "Failed to parse review JSON")
                master_log == IF log_file.kind = "list" THEN log_file.entries ELSE <<>>
            IN  /\ log_file' = [kind |-> "list", entries |-> Append(master_log, review_data)]
                /\ rpc' = AfterFunction
                /\ npos' = npos + 1
                /\ UNCHANGED raised
    /\ UNCHANGED <<document_code, verify_code, queue, reviewed_funcs, fpos, attempt,
                   last_post, cur_doxygen, edits, disk, last_doc_date>>
    /\ UNCHANGED notRunVars

\* lines 365-370 and 418-420: the buffer is written, the next file is taken
SaveFile ==
    /\ rpc = "write"
    /\ \E writable \in BOOLEAN :
          IF document_code /\ ~writable
          THEN /\ rpc' = "aborted"
               /\ raised' = "IOError"
               /\ UNCHANGED <<disk, fpos, npos, edits>>
          ELSE /\ disk' = IF document_code THEN WriteCleanCode(disk, CurFile.path, edits)
                          ELSE disk
               /\ rpc' = AfterFile
               /\ fpos' = fpos + 1
               /\ npos' = 0
               /\ edits' = <<>>
               /\ UNCHANGED raised
    /\ UNCHANGED <<document_code, verify_code, queue, log_file, reviewed_funcs, attempt,
                   last_post, api_response, cur_doxygen, last_doc_date>>
    /\ UNCHANGED notRunVars

\* lines 422-428: the date of the run is saved
Finish ==
    /\ rpc = "finish"
    /\ last_doc_date' = "today"
    /\ rpc' = "done"
    /\ UNCHANGED <<document_code, verify_code, queue, log_file, reviewed_funcs, fpos,
                   npos, attempt, last_post, api_response, cur_doxygen, edits, disk,
                   raised>>
    /\ UNCHANGED notRunVars

-----------------------------------------------------------------------------
(* The doc block taken from a summarize response (process_file 293-296, 330) *)

DoxAlphabet == {"/", "*", NL, "x"}

DoxTexts == UNION {[1..n -> DoxAlphabet] : n \in 0..MaxDox}

SummaryIdle ==
    /\ dox_response = <<>>
    /\ doc_block = <<>>
    /\ doc_lines = <<>>
    /\ epc = "idle"

\* line 293: the generator has answered
SummaryInit ==
    /\ dox_response \in DoxTexts
    /\ doc_block = <<>>
    /\ doc_lines = <<>>
    /\ epc = "answered"

\* lines 294-296 and 330
SummaryExtract ==
    /\ epc = "answered"
    /\ doc_block' = ExtractDoxygen(dox_response)
    /\ doc_lines' = DoxygenLines(doc_block')
    /\ epc' = "extracted"
    /\ UNCHANGED dox_response
    /\ UNCHANGED notSummaryVars

-----------------------------------------------------------------------------
(* The Generate button and the worker threads (lines 437-466, 351-361) *)

Workers == 1..MaxRuns

\* a worker thread that has not been started
NotStarted == [pc |-> "none", master_log |-> <<>>, reviews |-> 0, ended_by |-> "none"]

\* the callback leaves the button as it is
LeftEnabled == TRUE

\* line 447: dpg.configure_item("generate_button", enabled=False)
DisabledByClick == FALSE

GuiIdle ==
    /\ generate_button = FALSE
    /\ workers = <<>>
    /\ review_log = <<>>
    /\ appended = <<>>

\* setup_gui: the button is there and enabled, no worker runs
GuiInit ==
    /\ generate_button = TRUE
    /\ workers = [w \in Workers |-> NotStarted]
    /\ review_log = <<>>
    /\ appended = <<>>

\* start_processing, the callback of the enabled button: the button is
\* disabled and the worker thread is started
StartProcessing ==
    /\ generate_button
    /\ \E w \in Workers :
          /\ workers[w].pc = "none"
          /\ \A v \in Workers : v < w => workers[v].pc # "none"
          /\ workers' = [workers EXCEPT ![w].pc = "running"]
    /\ generate_button' = DisabledByClick
    /\ UNCHANGED <<review_log, appended>>
    /\ UNCHANGED notGuiVars

\* process_file lines 351-355: a worker reads the log for a new review
ReadLog ==
    /\ \E w \in Workers :
          /\ workers[w].pc = "running"
          /\ workers[w].reviews < MaxReviews
          /\ workers' = [workers EXCEPT ![w].pc = "read", ![w].master_log = review_log]
    /\ UNCHANGED <<generate_button, review_log, appended>>
    /\ UNCHANGED notGuiVars

\* process_file lines 357-360: the worker appends its record and writes the
\* log back
WriteLog ==
    /\ \E w \in Workers :
          /\ workers[w].pc = "read"
          /\ LET review_data == <<w, workers[w].reviews + 1>> IN
             /\ review_log' = Append(workers[w].master_log, review_data)
             /\ appended' = Append(appended, review_data)
          /\ workers' = [workers EXCEPT ![w].pc = "running", ![w].reviews = @ + 1]
    /\ UNCHANGED generate_button
    /\ UNCHANGED notGuiVars

\* how run_processing may end in a worker: refused by the generator before
\* anything was done (lines 380-384), by returning, or by an exception,
\* which may also come between the read and the write of the log
Endings(worker) ==
    IF worker.pc = "read" THEN {"raised"}
    ELSE IF worker.reviews = 0 THEN {"refused", "completed", "raised"}
    ELSE {"completed", "raised"}

\* the button is enabled after run_processing has returned, not after an
\* exception
EnabledAfterReturn(ending) == ending # "raised"

\* lines 438-442: the finally clause enables the button however the run ended
EnabledAfter(ending) == TRUE

\* run_processing_wrapper lines 437-442: the run ends and the button is
\* enabled again
EndRun ==
    /\ \E w \in Workers :
          /\ workers[w].pc \in {"running", "read"}
          /\ \E ending \in Endings(workers[w]) :
                /\ workers' = [workers EXCEPT ![w].pc = "ended", ![w].ended_by = ending]
                /\ generate_button' = EnabledAfter(ending)
    /\ UNCHANGED <<review_log, appended>>
    /\ UNCHANGED notGuiVars

-----------------------------------------------------------------------------
(* The review log across runs (process_file 333-363, run_processing 402-416) *)

ReviewFiles == 1..NumReviewFiles

DisplayNames == 1..NumNames

\* the (path, func_name) pairs of the changed functions of a run, in the order
\* process_file visits them; two functions may have the same display name
RunFunctions ==
    UNION {[1..n -> [path : ReviewFiles, func_name : DisplayNames]] : n \in 1..MaxPerRun}

\* the "file" and "function" values of a JSON object the generator returns;
\* 0 stands for a key the object does not have
ReviewObjects == [file : 0..NumReviewFiles, function : 0..NumNames]

\* line 414: the pairs of the records that have both keys
ReviewedPairs(entries) ==
    {<<entries[k].file, entries[k].function>> :
        k \in {n \in 1..Len(entries) : entries[n].file # 0 /\ entries[n].function # 0}}

ReviewIdle ==
    /\ stored_log = <<>>
    /\ known_funcs = {}
    /\ pending_funcs = <<>>
    /\ sent_reviews = <<>>
    /\ run_count = 0
    /\ vpc = "idle"

\* no code_review_log.json yet, no run started
ReviewInit ==
    /\ stored_log = <<>>
    /\ known_funcs = {}
    /\ pending_funcs = <<>>
    /\ sent_reviews = <<>>
    /\ run_count = 0
    /\ vpc = "between"

\* run_processing lines 402-416 with verify_code: the log is loaded and the
\* changed functions of the run are known
StartReviewRun ==
    /\ vpc \in {"between", "aborted"}
    /\ run_count < MaxReviewRuns
    /\ run_count' = run_count + 1
    /\ known_funcs' = ReviewedPairs(stored_log)
    /\ pending_funcs' \in RunFunctions
    /\ vpc' = "run"
    /\ UNCHANGED <<stored_log, sent_reviews>>
    /\ UNCHANGED notReviewVars

\* lines 333-335: a function whose pair is among the reviewed ones is skipped
SkipReviewed ==
    /\ vpc = "run"
    /\ pending_funcs # <<>>
    /\ <<Head(pending_funcs).path, Head(pending_funcs).func_name>> \in known_funcs
    /\ pending_funcs' = Tail(pending_funcs)
    /\ UNCHANGED <<stored_log, known_funcs, sent_reviews, run_count, vpc>>
    /\ UNCHANGED notReviewVars

\* lines 336-361: the review is asked for, parsed and appended to the log; an
\* answer that is not JSON gives the record of lines 341-345, JSON that is no
\* object raises at line 348
ReviewFunction ==
    /\ vpc = "run"
    /\ pending_funcs # <<>>
    /\ LET path      == Head(pending_funcs).path
           func_name == Head(pending_funcs).func_name
       IN  /\ <<path, func_name>> \notin known_funcs
           /\ sent_reviews' = Append(sent_reviews, <<path, func_name>>)
           /\ \E kind \in {"object", "notjson", "badshape"} :
                 IF kind = "badshape"
                 THEN /\ vpc' = "aborted"
                      /\ UNCHANGED <<stored_log, pending_funcs>>
                 ELSE /\ \E review_data \in
                              IF kind = "object" THEN ReviewObjects
                              ELSE {[file |-> path, function |-> func_name]} :
                            stored_log' = Append(stored_log, review_data)
                      /\ pending_funcs' = Tail(pending_funcs)
                      /\ UNCHANGED vpc
    /\ UNCHANGED <<known_funcs, run_count>>
    /\ UNCHANGED notReviewVars

\* the loop over the files is over
EndReviewRun ==
    /\ vpc = "run"
    /\ pending_funcs = <<>>
    /\ vpc' = "between"
    /\ UNCHANGED <<stored_log, known_funcs, pending_funcs, sent_reviews, run_count>>
    /\ UNCHANGED notReviewVars

-----------------------------------------------------------------------------
(* CppParser.GetFunctionInfo (generate_docs_ollama.py 113-139)               *)

\* "U" stands for a character that UTF-8 encodes in two bytes
CodeAlphabet == {"x", NL, "U"}

CodeTexts == UNION {[1..n -> CodeAlphabet] : n \in 1..MaxCode}

\* the number of bytes of the UTF-8 encoding of a character
Utf8Width(c) == IF c = "U" THEN 2 ELSE 1

RECURSIVE ByteLen(_)
\* len(s.encode('utf-8'))
ByteLen(s) == IF Len(s) = 0 THEN 0 ELSE Utf8Width(Head(s)) + ByteLen(Tail(s))

RECURSIVE CountNL(_)
\* s.count('\n')
CountNL(s) == IF Len(s) = 0 THEN 0 ELSE (IF Head(s) = NL THEN 1 ELSE 0) + CountNL(Tail(s))

\* the node of a function that holds the characters a..b-1 of the text (0-based):
\* the parser reports byte offsets into the encoded file and rows
FuncNode(code, a, b) ==
    [start_byte |-> ByteLen(Slice(code, 0, a)),
     end_byte   |-> ByteLen(Slice(code, 0, b)),
     start_row  |-> CountNL(Slice(code, 0, a)),
     end_row    |-> CountNL(Slice(code, 0, b))]

\* lines 131-132: original_code[:byte].count('\n')
LineOfByte(code, byte) == CountNL(Slice(code, 0, byte))

\* lines 124-139
GetFunctionInfo(functions, code) ==
    [k \in 1..Len(functions) |->
        [start_line |-> LineOfByte(code, functions[k].start_byte),
         end_line   |-> LineOfByte(code, functions[k].end_byte)]]

InfoIdle ==
    /\ original_code = <<>>
    /\ func_nodes = <<>>
    /\ function_info = <<>>
    /\ ipc = "idle"

\* ProcessFile lines 394-408: the file is parsed and decoded
InfoInit ==
    /\ original_code \in CodeTexts
    /\ \E a \in 0..(Len(original_code) - 1), b \in 1..Len(original_code) :
          /\ a < b
          /\ At(original_code, a) # NL
          /\ At(original_code, b - 1) # NL
          /\ func_nodes = <<FuncNode(original_code, a, b)>>
    /\ function_info = <<>>
    /\ ipc = "parsed"

\* ProcessFile line 411
CallGetFunctionInfo ==
    /\ ipc = "parsed"
    /\ function_info' = GetFunctionInfo(func_nodes, original_code)
    /\ ipc' = "done"
    /\ UNCHANGED <<original_code, func_nodes>>
    /\ UNCHANGED notInfoVars

-----------------------------------------------------------------------------
(* Parser rows and the line buffer (process_file 249-272)                    *)

\* code, a newline, a carriage return, a form feed
SourceAlphabet == {"x", NL, "\r", "\f"}

SourceTexts == UNION {[1..n -> SourceAlphabet] : n \in 1..MaxSource}

\* the characters str.splitlines ends a line at
IsLineBreak(c) == c \in {NL, "\r", "\f"}

RECURSIVE SplitLinesAtNewline(_)
\* lines end at '\n' only
SplitLinesAtNewline(t) ==
    IF Len(t) = 0 THEN <<>>
    ELSE IF \E k \in 1..Len(t) : t[k] = NL
    THEN LET k == CHOOSE j \in 1..Len(t) : t[j] = NL /\ \A m \in 1..(j - 1) : t[m] # NL
         IN  <<SubSeq(t, 1, k)>> \o SplitLinesAtNewline(SubSeq(t, k + 1, Len(t)))
    ELSE <<t>>

RECURSIVE SplitLinesKeepEnds(_)
\* str.splitlines(keepends=True): a line ends at '\n', '\r', '\r\n' or '\f'
SplitLinesKeepEnds(t) ==
    IF Len(t) = 0 THEN <<>>
    ELSE IF \E k \in 1..Len(t) : IsLineBreak(t[k])
    THEN LET k == CHOOSE j \in 1..Len(t) :
                      IsLineBreak(t[j]) /\ \A m \in 1..(j - 1) : ~IsLineBreak(t[m])
             e == IF t[k] = "\r" /\ k < Len(t) /\ t[k + 1] = NL THEN k + 1 ELSE k
         IN  <<SubSeq(t, 1, e)>> \o SplitLinesKeepEnds(SubSeq(t, e + 1, Len(t)))
    ELSE <<t>>

RowIdle ==
    /\ source_text = <<>>
    /\ fnode = [start_row |-> 0, end_row |-> 0]
    /\ buffer_lines = <<>>
    /\ taken_lines = <<>>
    /\ kpc = "idle"

\* line 250: the content is parsed; the node of a function holds code from its
\* first to its last character
RowInit ==
    /\ source_text \in SourceTexts
    /\ \E a \in 0..(Len(source_text) - 1), b \in 1..Len(source_text) :
          /\ a < b
          /\ At(source_text, a) = "x"
          /\ At(source_text, b - 1) = "x"
          /\ fnode = [start_row |-> CountNL(Slice(source_text, 0, a)),
                      end_row   |-> CountNL(Slice(source_text, 0, b))]
    /\ buffer_lines = <<>>
    /\ taken_lines = <<>>
    /\ kpc = "parsed"

\* lines 262 and 271: the buffer is built and the rows of the node are taken
TakeFuncLines ==
    /\ kpc = "parsed"
    /\ buffer_lines' = SplitLinesKeepEnds(source_text)
    /\ taken_lines' = Slice(buffer_lines', fnode.start_row, fnode.end_row + 1)
    /\ kpc' = "sliced"
    /\ UNCHANGED <<source_text, fnode>>
    /\ UNCHANGED notRowVars

-----------------------------------------------------------------------------
(* The batch driver and its file list (generate_docs_ollama.py 491-684)      *)

\* the paths PrepareFileList finds, as words: every path ends with its
\* extension, one has the text of a status inside
BatchPaths ==
    {<<"a", ".cpp">>, <<"b", ".hpp">>, <<"c", " - SUCCESS", ".cpp">>, <<"d", ".cpp">>}

SuccessSuffix == " - SUCCESS"

FailureSuffix == " - FAILURE"

\* the dictionary value None
NoStatus == "None"

\* lines 525-531: the path and the status of a line of the list
ParseLine(line) ==
    IF line[Len(line)] \in {SuccessSuffix, FailureSuffix}
    THEN [file_path |-> SubSeq(line, 1, Len(line) - 1),
          status    |-> IF line[Len(line)] = SuccessSuffix THEN "SUCCESS" ELSE "FAILURE"]
    ELSE [file_path |-> line, status |-> NoStatus]

\* line 561: f"{file_path} - {status}"
FormatLine(path, status) ==
    Append(path, IF status = "SUCCESS" THEN SuccessSuffix ELSE FailureSuffix)

\* lines 507-533: the dictionary, in the order of the list
ReadFileStatus(list) == [k \in 1..Len(list) |-> ParseLine(list[k])]

\* lines 535-567: the line of the file is rewritten, the others are kept
UpdateFileStatus(list, path, status) ==
    [k \in 1..Len(list) |->
        IF ParseLine(list[k]).file_path = path THEN FormatLine(path, status)
        ELSE list[k]]

RECURSIVE SelectPending(_)
\* line 577: the files whose status is None, in the order of the dictionary
SelectPending(statuses) ==
    IF Len(statuses) = 0 THEN <<>>
    ELSE (IF Head(statuses).status = NoStatus THEN <<Head(statuses).file_path>> ELSE <<>>)
         \o SelectPending(Tail(statuses))

\* files marked FAILURE are pending again
GetPendingFilesRetrying(statuses) ==
    SelectPending([k \in 1..Len(statuses) |->
                      IF statuses[k].status = "FAILURE"
                      THEN [statuses[k] EXCEPT !.status = NoStatus]
                      ELSE statuses[k]])

\* lines 569-577
GetPendingFiles(statuses) == SelectPending(statuses)

BatchIdle ==
    /\ file_list = <<>>
    /\ file_status = <<>>
    /\ pending_files = <<>>
    /\ bpos = 0
    /\ processed = <<>>
    /\ batch_runs = 0
    /\ bpc = "idle"

\* PrepareFileList lines 491-505: every file once, none with a status
BatchInit ==
    /\ file_list \in {l \in UNION {[1..n -> BatchPaths] : n \in 1..MaxBatchFiles} :
                          \A i, j \in 1..Len(l) : i # j => l[i] # l[j]}
    /\ file_status = <<>>
    /\ pending_files = <<>>
    /\ bpos = 0
    /\ processed = <<>>
    /\ batch_runs = 0
    /\ bpc = "fresh"

\* lines 610-645: the driver is started, the status is read
StartBatch ==
    /\ bpc \in {"fresh", "complete", "interrupted"}
    /\ batch_runs < MaxBatchRuns
    /\ batch_runs' = batch_runs + 1
    /\ file_status' = ReadFileStatus(file_list)
    /\ pending_files' = GetPendingFiles(file_status')
    /\ bpos' = 0
    /\ bpc' = "loop"
    /\ UNCHANGED <<file_list, processed>>
    /\ UNCHANGED notBatchVars

\* lines 647-675: one pending file; ProcessFile returns or raises
ProcessPending ==
    /\ bpc = "loop"
    /\ bpos < Len(pending_files)
    /\ LET file_path == pending_files[bpos + 1] IN
       \E outcome \in {"returned", "raised"} :
          /\ file_list' = UpdateFileStatus(file_list, file_path,
                                          IF outcome = "returned" THEN "SUCCESS"
                                          ELSE "FAILURE")
          /\ processed' = Append(processed, [run |-> batch_runs, file_path |-> file_path,
                                             outcome |-> outcome])
    /\ bpos' = bpos + 1
    /\ UNCHANGED <<file_status, pending_files, batch_runs, bpc>>
    /\ UNCHANGED notBatchVars

\* the driver is interrupted while ProcessFile runs: KeyboardInterrupt is not
\* an Exception and leaves the loop of line 647
InterruptBatch ==
    /\ bpc = "loop"
    /\ bpos < Len(pending_files)
    /\ processed' = Append(processed, [run |-> batch_runs,
                                       file_path |-> pending_files[bpos + 1],
                                       outcome |-> "interrupted"])
    /\ bpc' = "interrupted"
    /\ UNCHANGED <<file_list, file_status, pending_files, bpos, batch_runs>>
    /\ UNCHANGED notBatchVars

\* lines 635-636 and 677-684: the loop is over, or nothing was pending
EndBatch ==
    /\ bpc = "loop"
    /\ bpos = Len(pending_files)
    /\ bpc' = "complete"
    /\ UNCHANGED <<file_list, file_status, pending_files, bpos, processed, batch_runs>>
    /\ UNCHANGED notBatchVars

-----------------------------------------------------------------------------
(* Specifications *)

NextStrip == ScanIter \/ ScanReturn

InitStrip == StripInit /\ DiffIdle /\ FileIdle /\ CollectIdle /\ AnnotateIdle /\ RunIdle /\ SummaryIdle /\ GuiIdle /\ ReviewIdle /\ InfoIdle /\ RowIdle /\ BatchIdle

SpecStrip == InitStrip /\ [][NextStrip]_vars

NextDiff == ProcessChangesClassify \/ CollectClassify

InitDiff == DiffInit /\ StripIdle /\ FileIdle /\ CollectIdle /\ AnnotateIdle /\ RunIdle /\ SummaryIdle /\ GuiIdle /\ ReviewIdle /\ InfoIdle /\ RowIdle /\ BatchIdle

SpecDiff == InitDiff /\ [][NextDiff]_vars

Next == FindChanged \/ ProcessNode \/ WriteFile

Init == FileInit /\ StripIdle /\ DiffIdle /\ CollectIdle /\ AnnotateIdle /\ RunIdle /\ SummaryIdle /\ GuiIdle /\ ReviewIdle /\ InfoIdle /\ RowIdle /\ BatchIdle

Spec == Init /\ [][Next]_vars

InitNested == NestedInit /\ StripIdle /\ DiffIdle /\ CollectIdle /\ AnnotateIdle /\ RunIdle /\ SummaryIdle /\ GuiIdle /\ ReviewIdle /\ InfoIdle /\ RowIdle /\ BatchIdle

SpecNested == InitNested /\ [][Next]_vars

InitShared ==
    SharedInit /\ StripIdle /\ DiffIdle /\ CollectIdle /\ AnnotateIdle /\ RunIdle /\ SummaryIdle
               /\ GuiIdle /\ ReviewIdle /\ InfoIdle /\ RowIdle /\ BatchIdle

SpecShared == InitShared /\ [][Next]_vars

InitLines ==
    LinesInit /\ StripIdle /\ DiffIdle /\ CollectIdle /\ AnnotateIdle /\ RunIdle /\ SummaryIdle /\ GuiIdle /\ ReviewIdle /\ InfoIdle /\ RowIdle /\ BatchIdle

SpecLines == InitLines /\ [][Next]_vars

NextCollect == CollectPath \/ CollectReturn \/ ProcessQueued \/ QueueDone

InitCollect == CollectInit /\ StripIdle /\ DiffIdle /\ FileIdle /\ AnnotateIdle /\ RunIdle /\ SummaryIdle /\ GuiIdle /\ ReviewIdle /\ InfoIdle /\ RowIdle /\ BatchIdle

SpecCollect == InitCollect /\ [][NextCollect]_vars

NextAnnotate == AnnotateApply

InitAnnotate == AnnotateInit /\ StripIdle /\ DiffIdle /\ FileIdle /\ CollectIdle /\ RunIdle /\ SummaryIdle /\ GuiIdle /\ ReviewIdle /\ InfoIdle /\ RowIdle /\ BatchIdle

SpecAnnotate == InitAnnotate /\ [][NextAnnotate]_vars

InitReclean ==
    RecleanInit /\ StripIdle /\ DiffIdle /\ FileIdle /\ CollectIdle /\ RunIdle /\ SummaryIdle
                /\ GuiIdle /\ ReviewIdle /\ InfoIdle /\ RowIdle /\ BatchIdle

SpecReclean == InitReclean /\ [][NextAnnotate]_vars

NextSummary == SummaryExtract

InitSummary ==
    SummaryInit /\ StripIdle /\ DiffIdle /\ FileIdle /\ CollectIdle /\ AnnotateIdle /\ RunIdle /\ GuiIdle /\ ReviewIdle /\ InfoIdle /\ RowIdle /\ BatchIdle

SpecSummary == InitSummary /\ [][NextSummary]_vars

NextGui == StartProcessing \/ ReadLog \/ WriteLog \/ EndRun

InitGui ==
    GuiInit /\ StripIdle /\ DiffIdle /\ FileIdle /\ CollectIdle /\ AnnotateIdle /\ RunIdle
            /\ SummaryIdle /\ ReviewIdle /\ InfoIdle /\ RowIdle /\ BatchIdle

SpecGui == InitGui /\ [][NextGui]_vars

NextReview == StartReviewRun \/ SkipReviewed \/ ReviewFunction \/ EndReviewRun

InitReview ==
    ReviewInit /\ StripIdle /\ DiffIdle /\ FileIdle /\ CollectIdle /\ AnnotateIdle /\ RunIdle
               /\ SummaryIdle /\ GuiIdle /\ InfoIdle /\ RowIdle /\ BatchIdle

SpecReview == InitReview /\ [][NextReview]_vars

NextInfo == CallGetFunctionInfo

InitInfo ==
    InfoInit /\ StripIdle /\ DiffIdle /\ FileIdle /\ CollectIdle /\ AnnotateIdle /\ RunIdle
             /\ SummaryIdle /\ GuiIdle /\ ReviewIdle /\ RowIdle /\ BatchIdle

SpecInfo == InitInfo /\ [][NextInfo]_vars

NextRow == TakeFuncLines

InitRow ==
    RowInit /\ StripIdle /\ DiffIdle /\ FileIdle /\ CollectIdle /\ AnnotateIdle /\ RunIdle
            /\ SummaryIdle /\ GuiIdle /\ ReviewIdle /\ InfoIdle /\ BatchIdle

SpecRow == InitRow /\ [][NextRow]_vars

NextBatch == StartBatch \/ ProcessPending \/ InterruptBatch \/ EndBatch

InitBatch ==
    BatchInit /\ StripIdle /\ DiffIdle /\ FileIdle /\ CollectIdle /\ AnnotateIdle /\ RunIdle
              /\ SummaryIdle /\ GuiIdle /\ ReviewIdle /\ InfoIdle /\ RowIdle

SpecBatch == InitBatch /\ [][NextBatch]_vars

NextRun ==
    \/ Connect
    \/ LoadReviewLog
    \/ StartFunction
    \/ Post
    \/ AfterDoc
    \/ AfterComment
    \/ AfterReview
    \/ SaveFile
    \/ Finish

InitRun ==
    RunInit /\ StripIdle /\ DiffIdle /\ FileIdle /\ CollectIdle /\ AnnotateIdle /\ SummaryIdle /\ GuiIdle /\ ReviewIdle /\ InfoIdle /\ RowIdle /\ BatchIdle

SpecRun == InitRun /\ [][NextRun]_vars

-----------------------------------------------------------------------------
(* Properties of RemoveComments *)

Count(s, c) == Cardinality({k \in 1..Len(s) : s[k] = c})

\* a occurs in b as a contiguous run
IsInfix(a, b) == \E k \in 0..(Len(b) - Len(a)) : SubSeq(b, k + 1, k + Len(a)) = a

\* s without its whitespace characters other than the newline
RECURSIVE NonBlank(_)
NonBlank(s) ==
    IF Len(s) = 0 THEN <<>>
    ELSE (IF IsSpace(s[1]) /\ s[1] # NL THEN <<>> ELSE <<s[1]>>) \o NonBlank(Tail(s))

\* the 1-based number of the line that holds index i
LineNo(t, i) == Count(Slice(t, 0, i), NL) + 1

\* the scanner is at '/' '/' outside a string
MeetsLineComment ==
    /\ spc = "scan"
    /\ ~scan.in_string
    /\ scan.i + 1 < Len(text)
    /\ At(text, scan.i) = "/"
    /\ At(text, scan.i + 1) = "/"

\* the scanner is at '/' '*' outside a string
MeetsBlockComment ==
    /\ spc = "scan"
    /\ ~scan.in_string
    /\ scan.i + 1 < Len(text)
    /\ At(text, scan.i) = "/"
    /\ At(text, scan.i + 1) = "*"

\* the scanner is at an opening quote
MeetsQuote ==
    /\ spc = "scan"
    /\ ~scan.in_string
    /\ scan.i < Len(text)
    /\ At(text, scan.i) \in {"\"", "'"}

\* the part of the current line before the scanner
LinePrefix == Slice(text, RfindNL(text, scan.i) + 1, scan.i)

\* the current line of the input, and the same line of the returned text
InputLine == SplitNL(text)[LineNo(text, scan.i)]

OutputLine == SplitNL(RemoveComments(text))[LineNo(text, scan.i)]

\* C4. Line-count invariance: the text RemoveComments returns holds exactly
\* as many newline characters as its argument.
C4_LineCountInvariance ==
    spc = "done" => Count(out, NL) = Count(text, NL)

\* a three-line text from which a comment or trailing blanks were removed
C4_Witness ==
    /\ spc = "done"
    /\ Count(text, NL) = 2
    /\ Len(out) < Len(text)

\* C5. Idempotence: stripping the returned text again returns it unchanged,
\* RemoveComments(RemoveComments(t)) = RemoveComments(t).
C5_Idempotence ==
    spc = "done" => RemoveComments(out) = out

\* the first pass dropped an inline comment and kept a full-line one
C5_Witness ==
    /\ spc = "done"
    /\ text = <<"x", "/", "/", NL, "/", "/">>
    /\ out = <<"x", NL, "/", "/">>

\* C6. String-boundary safety: inside a string or character literal every
\* character, '/' and '*' included, is copied to the result and starts no
\* comment; a backslash copies the next character too and keeps the scanner
\* in the literal; only the unescaped opening quote character ends it; and
\* the post-pass removes nothing but blanks, so what was copied is returned.
C6_InStringStep ==
    (spc = "scan" /\ scan.in_string /\ scan.i < Len(text)) =>
        LET c   == At(text, scan.i)
            esc == c = "\\" /\ scan.i + 1 < Len(text)
        IN  /\ scan'.result =
                  scan.result \o (IF esc THEN <<c, At(text, scan.i + 1)>> ELSE <<c>>)
            /\ scan'.i = scan.i + (IF esc THEN 2 ELSE 1)
            /\ scan'.in_string = (c = "\\" \/ c # scan.string_char)
            /\ scan'.string_char = scan.string_char

C6_StringBoundarySafety ==
    /\ [][C6_InStringStep]_vars
    /\ [](spc = "done" => NonBlank(out) = NonBlank(scan.result))

\* after an escaped quote the scanner is still in the string, at '/' '/'
C6_Witness ==
    /\ spc = "scan"
    /\ scan.in_string
    /\ scan.i = 3
    /\ scan.result = <<"\"", "\\", "\"">>
    /\ Slice(text, 3, 5) = <<"/", "/">>

\* C7 as stated: a '//' comment preceded on its line only by whitespace
\* leaves its line verbatim in the returned text; any other '//' comment
\* leaves only what preceded it on the line, right-trimmed.
C7_FullLineVerbatim ==
    MeetsLineComment =>
        OutputLine = (IF StripIsEmpty(LinePrefix) THEN InputLine ELSE RStrip(LinePrefix))

\* C7, amended. A '//' comment preceded on its line only by whitespace
\* leaves its line in the returned text with only the whitespace at the end
\* of the line trimmed; any other '//' comment leaves only what preceded it
\* on the line, right-trimmed; the newline is kept in both cases.
C7_FullLineOrInline ==
    MeetsLineComment =>
        /\ OutputLine = RStrip(IF StripIsEmpty(LinePrefix) THEN InputLine ELSE LinePrefix)
        /\ Len(SplitNL(RemoveComments(text))) = Len(SplitNL(text))

\* an indented full-line comment that ends in a blank
C7_Witness ==
    /\ MeetsLineComment
    /\ Len(LinePrefix) > 0
    /\ StripIsEmpty(LinePrefix)
    /\ InputLine # RStrip(InputLine)

\* the block comment the scanner is at: through the first following '*' '/',
\* or through the end of the text
BlockCloses(j) == j + 1 < Len(text) /\ At(text, j) = "*" /\ At(text, j + 1) = "/"

BlockStop ==
    IF \E j \in (scan.i + 2)..(Len(text) - 1) : BlockCloses(j)
    THEN 2 + CHOOSE j \in (scan.i + 2)..(Len(text) - 1) :
                 BlockCloses(j) /\ \A m \in (scan.i + 2)..(j - 1) : ~BlockCloses(m)
    ELSE Len(text)

BlockText == Slice(text, scan.i, BlockStop)

BlockClosed == \E j \in (scan.i + 2)..(Len(text) - 1) : BlockCloses(j)

\* C8 as stated: every block comment met outside a string, from its '/' '*'
\* through the first following '*' '/', is in the returned text verbatim.
C8_BlockVerbatim ==
    (MeetsBlockComment /\ BlockClosed) => IsInfix(BlockText, RemoveComments(text))

C8_BlockStep ==
    MeetsBlockComment =>
        /\ scan'.result = scan.result \o BlockText
        /\ scan'.i = BlockStop
        /\ ~scan'.in_string

\* C8, amended. Every block comment met outside a string is copied to the
\* result through the first following '*' '/', whatever it contains (a '//'
\* or a quote in it starts nothing), and is in the returned text with only
\* the whitespace at the end of each of its lines trimmed.
C8_BlockKept ==
    /\ [][C8_BlockStep]_vars
    /\ [](MeetsBlockComment => IsInfix(TrimLines(BlockText), RemoveComments(text)))

\* a closed block comment of two lines, the first ending in a blank
C8_Witness ==
    /\ MeetsBlockComment
    /\ BlockText = <<"/", "*", " ", NL, "*", "/">>

\* the index of the quote that closes the literal opened before index j with
\* quote character q, or -1 when the text ends first
RECURSIVE ClosingQuote(_, _)
ClosingQuote(j, q) ==
    IF j >= Len(text) THEN -1
    ELSE IF At(text, j) = "\\" THEN ClosingQuote(j + 2, q)
    ELSE IF At(text, j) = q THEN j
    ELSE ClosingQuote(j + 1, q)

LiteralClosed == ClosingQuote(scan.i + 1, At(text, scan.i)) >= 0

\* the literal the scanner is at, from its opening through its closing quote
LiteralText == Slice(text, scan.i, ClosingQuote(scan.i + 1, At(text, scan.i)) + 1)

\* C9. String-literal contents are preserved: every literal met by the
\* scanner, from its opening quote through its closing quote, is in the
\* returned text unchanged.
C9_LiteralPreserved ==
    (MeetsQuote /\ LiteralClosed) => IsInfix(LiteralText, RemoveComments(text))

\* a ends b
IsSuffix(a, b) == Len(a) <= Len(b) /\ SubSeq(b, Len(b) - Len(a) + 1, Len(b)) = a

\* every iteration of the loop moves the index forward, never past the end
C22_IterStep ==
    (spc = "scan" /\ scan.i < Len(text)) =>
        /\ scan'.i > scan.i
        /\ scan'.i <= Len(text)

\* the text from the scanner to the end of the input
Rest == Slice(text, scan.i, Len(text))

\* C22. RemoveComments terminates on every finite input: the scan index
\* strictly increases in every iteration; and it is fail-soft: when the input
\* ends inside a string literal (also right after a backslash) or inside a
\* block comment, the unterminated part is copied through to the end of the
\* returned text.
C22_FailSoft ==
    /\ [][C22_IterStep]_vars
    /\ []((MeetsQuote /\ ~LiteralClosed) => IsSuffix(Rest, RemoveComments(text)))
    /\ []((MeetsBlockComment /\ ~BlockClosed) => IsSuffix(Rest, RemoveComments(text)))

\* the same with the post-pass taken into account: the unterminated part is
\* at the end of the returned text with the whitespace at the end of each of
\* its lines trimmed
C22_FailSoftTrimmed ==
    /\ [][C22_IterStep]_vars
    /\ []((MeetsQuote /\ ~LiteralClosed) =>
              IsSuffix(TrimLines(Rest), RemoveComments(text)))
    /\ []((MeetsBlockComment /\ ~BlockClosed) =>
              IsSuffix(TrimLines(Rest), RemoveComments(text)))

-----------------------------------------------------------------------------
(* Properties of process_file *)

\* the node of the iteration in progress or just done
NodeAt(k) == changed_nodes[k]

\* how many rows of the buffer lie after row b
RowsAfter(ls, b) == Max(Len(ls) - (b + 1), 0)

\* C1. Splice locality: an iteration of the loop leaves every line before
\* start_row and every line after end_row of the pre-edit buffer unchanged and
\* in the same order; the buffer after it is those lines with the replacement
\* between them.
C1_EditStep ==
    pos' = pos + 1 =>
        LET node      == NodeAt(pos + 1)
            start_row == EditStartRow(tree, new_content, node)
            end_row   == node.end_row
            after     == RowsAfter(lines, end_row)
        IN  /\ Slice(lines', 0, start_row) = Slice(lines, 0, start_row)
            /\ Len(lines') >= Min(start_row, Len(lines)) + after
            /\ Slice(lines', Len(lines') - after, Len(lines'))
                   = Slice(lines, end_row + 1, Len(lines))

C1_SpliceLocality == [][C1_EditStep]_vars

\* an edit that starts at a doc block, has lines before and after it and
\* changes the length of the buffer
C1_Witness ==
    /\ ppc = "loop"
    /\ pos = 1
    /\ LET node == NodeAt(1) IN
          /\ EditStartRow(tree, new_content, node) > 0
          /\ EditStartRow(tree, new_content, node) < node.start_row
          /\ node.end_row < NumRows - 1
    /\ applied[1].delta # 0

\* the changed functions have pairwise disjoint line ranges
ChangedDisjoint ==
    \A i, j \in 1..Len(changed_nodes) :
        i # j => Disjoint(changed_nodes[i], changed_nodes[j])

\* what the generator returned for a node
ResponseFor(node) ==
    applied[CHOOSE k \in 1..Len(applied) : applied[k].node = node]

RECURSIVE Oracle(_, _, _)
\* the edits applied from the top of the file down, one by one, every range
\* moved by what the edits before it added or removed
Oracle(buffer, nodes, shift) ==
    IF Len(nodes) = 0 THEN buffer
    ELSE LET node      == Head(nodes)
             response  == ResponseFor(node)
             first     == node.start_row + shift
             start_row == EditStartRow(tree, new_content, node) + shift
             end_row   == node.end_row + shift
             replacement == BuildReplacement(Slice(buffer, first, end_row + 1),
                                             response.dox_comment, response.comments)
             next      == Slice(buffer, 0, start_row) \o replacement
                              \o Slice(buffer, end_row + 1, Len(buffer))
         IN  Oracle(next, Tail(nodes), shift + Len(next) - Len(buffer))

RECURSIVE DeltaSum(_)
\* the rows added by the iterations K
DeltaSum(K) ==
    IF K = {} THEN 0
    ELSE LET k == CHOOSE x \in K : TRUE IN applied[k].delta + DeltaSum(K \ {k})

\* the rows the pending node's function has in the buffer now: its recorded
\* rows, its last row moved by the edits already made inside it
OwnLines(node) ==
    LET inner == {k \in 1..pos : /\ Inside(applied[k].node, node)
                                 /\ applied[k].node # node}
        moved == DeltaSum(inner)
    IN  Slice(lines, node.start_row, node.end_row + 1 + moved)

\* the rows by which the edits made above a node have moved it
ShiftOf(node) ==
    DeltaSum({k \in 1..Len(applied) : applied[k].node.start_row < node.start_row})

\* a function of the file that is not among the changed ones and lies apart
\* from each of them
UnchangedApart(node) ==
    /\ \A k \in 1..Len(changed_lines) : changed_lines[k] # node.start_row + 1
    /\ \A k \in 1..Len(changed_nodes) : Disjoint(node, changed_nodes[k])

\* C12. Unchanged functions are untouched: after process_file the lines of
\* every unchanged function that stands next to the changed ones are, in the
\* written buffer, identical to the lines of the new snapshot.
C12_UnchangedUntouched ==
    ppc = "written" =>
        \A k \in 1..Len(tree) :
            UnchangedApart(tree[k]) =>
                Slice(lines, tree[k].start_row + ShiftOf(tree[k]),
                             tree[k].end_row + 1 + ShiftOf(tree[k]))
                    = Slice(KeepEndsLines(new_content), tree[k].start_row,
                                                        tree[k].end_row + 1)

\* the rows of the uninterrupted run of comments right above a function that
\* starts on row first
RunAbove(first) ==
    {r \in 0..(first - 1) : \A q \in r..(first - 1) : IsCommentRow(new_content[q + 1])}

\* the rows of that run whose comment carries a documentation marker
MarkedAbove(first) == {r \in RunAbove(first) : IsDoxygenComment(new_content[r + 1])}

\* C14. Doc-block recognition and replacement: when the run of comments right
\* above a changed function holds a comment with a documentation marker, the
\* replaced range starts at the row of the earliest such comment and runs
\* through the function's last row, the new rows taking the place of the old
\* documentation and the function; when no comment of the run has a marker the
\* range starts at the function's first row and the rows above are unchanged.
C14_EditStep ==
    pos' = pos + 1 =>
        LET node     == NodeAt(pos + 1)
            marked   == MarkedAbove(node.start_row)
            from     == IF marked # {}
                        THEN CHOOSE r \in marked : \A q \in marked : r <= q
                        ELSE node.start_row
            own      == OwnLines(node)
            last_row == node.start_row + Len(own) - 1
            response == applied'[pos + 1]
        IN  lines' = Slice(lines, 0, from)
                        \o BuildReplacement(own, response.dox_comment, response.comments)
                        \o Slice(lines, last_row + 1, Len(lines))

C14_DocBlockReplaced == [][C14_EditStep]_vars

\* the same, for changed functions that lie apart from each other
C14_ApartStep == ChangedDisjoint => C14_EditStep

C14_DocBlockReplacedApart == [][C14_ApartStep]_vars

\* the entries of changed_lines on which a function of the parse starts
MatchedLines ==
    {k \in 1..Len(changed_lines) :
        \E j \in 1..Len(tree) : tree[j].start_row + 1 = changed_lines[k]}

\* C18. FindFunctionNode returns a node only when its 1-based start line is
\* the requested line, and nothing otherwise; a changed line for which it
\* returns nothing is skipped and the functions found for the other changed
\* lines are still processed.
C18_ExactMatchOrSkip ==
    ppc # "start" =>
        /\ Len(changed_nodes) = Cardinality(MatchedLines)
        /\ \A k \in 1..Len(changed_nodes) :
              \E j \in MatchedLines : changed_nodes[k].start_row + 1 = changed_lines[j]
        /\ \A j \in MatchedLines :
              \E k \in 1..Len(changed_nodes) :
                  changed_nodes[k].start_row + 1 = changed_lines[j]
        /\ ppc = "written" => Len(applied) = Cardinality(MatchedLines)

\* one changed line is the line before the start of a function and matches
\* none, the other one is the start of a function, which is processed
C18_Witness ==
    /\ ppc = "written"
    /\ Len(changed_lines) = 2
    /\ Cardinality(MatchedLines) = 1
    /\ \E k \in 1..2 : /\ k \notin MatchedLines
                       /\ \E j \in 1..Len(tree) : tree[j].start_row = changed_lines[k]
    /\ Len(applied) = 1

\* what a line of the buffer holds besides comments and whitespace
CodeOf(line) ==
    LET row == RStripCRLF(line)
        cut == Find(row, <<"/", "/">>, 0)
    IN  IF StartsWith(row, <<"/", "*">>) \/ StartsWith(row, <<"*", "/">>) THEN <<>>
        ELSE RStrip(IF cut = -1 THEN row ELSE Slice(row, 0, cut))

\* how many lines of a buffer hold code
CodeCount(ls) == Cardinality({k \in 1..Len(ls) : CodeOf(ls[k]) # <<>>})

C26_EditStep == pos' = pos + 1 => CodeCount(lines') >= CodeCount(lines)

\* C26. A splice never deletes code: the lines an iteration removes from the
\* buffer without re-emitting them hold only comment text and whitespace, so
\* every line that holds code before the iteration still holds it after, also
\* when the code shares its row with the first recognized documentation
\* comment above the function; the written file holds the code of every row
\* of the snapshot.
C26_NeverDeletesCode ==
    /\ [][C26_EditStep]_vars
    /\ [](ppc = "written" => CodeCount(lines) >= CodeCount(KeepEndsLines(new_content)))

\* C29. Existing documentation is not lost when no summary is produced: when
\* a changed function has a recognized documentation block above it and the
\* summarize response yields no doc block, the rows of the existing block are
\* still in the buffer after the function was processed.
C29_EditStep ==
    pos' = pos + 1 =>
        LET node     == NodeAt(pos + 1)
            response == applied'[pos + 1]
        IN  (/\ MarkedAbove(node.start_row) # {}
             /\ ExtractDoxygen(response.dox_comment) = <<>>) =>
                Slice(lines', 0, node.start_row) = Slice(lines, 0, node.start_row)

C29_DocKeptWithoutSummary == [][C29_EditStep]_vars

\* C3. Once nodes with a larger start row have been edited, the rows recorded
\* for the pending node with the smaller start row are still its rows:
\* lines[start_row..end_row] are exactly that function's own lines.
C3_PendingRowsValid ==
    (/\ ppc = "loop"
     /\ pos >= 1
     /\ pos < Len(changed_nodes)
     /\ \A k \in 1..pos : applied[k].node.start_row > NodeAt(pos + 1).start_row) =>
        LET node == NodeAt(pos + 1) IN
        Slice(lines, node.start_row, node.end_row + 1) = OwnLines(node)

-----------------------------------------------------------------------------
(* Properties of the inline annotations *)

\* the annotation names a line of the function
InRange(comment) == 1 <= comment.line /\ comment.line <= Len(cleaned_before)

\* C31. Generated inline annotations are removable and never alter code:
\* cleaning the annotated lines again, as lines 275-278 clean a function,
\* gives the cleaned lines the annotations were applied to, whatever line an
\* in-range annotation names.
C31_AnnotationsRemovable ==
    apc = "applied" => CleanFuncLines(alines) = cleaned_before

\* C13. Out-of-range inline annotations are ignored: an annotation whose line
\* is below 1 or above the number of cleaned lines changes no line, every line
\* that no in-range annotation names is as it was, and every in-range
\* annotation of the list is applied to its line.
C13_OutOfRangeIgnored ==
    apc = "applied" =>
        /\ Len(alines) = Len(cleaned_before)
        /\ \A i \in 1..Len(cleaned_before) :
              (\A k \in 1..Len(inline_comments) : inline_comments[k].line # i) =>
                  alines[i] = cleaned_before[i]
        /\ \A k \in 1..Len(inline_comments) :
              InRange(inline_comments[k]) =>
                  IsInfix(<<"\t", " ", "/", "/", " ">> \o inline_comments[k].comment,
                          alines[inline_comments[k].line])

\* a list with an annotation above the last line and one in range
C13_Witness ==
    /\ apc = "applied"
    /\ \E k \in 1..Len(inline_comments) : inline_comments[k].line > Len(cleaned_before)
    /\ \E k \in 1..Len(inline_comments) : InRange(inline_comments[k])
    /\ alines # cleaned_before

RECURSIVE NotesFor(_, _)
\* the annotations of a list that name line r, as they are written, in the
\* order of the list
NotesFor(comments, r) ==
    IF Len(comments) = 0 THEN <<>>
    ELSE (IF Head(comments).line = r
          THEN <<"\t", " ", "/", "/", " ">> \o Head(comments).comment
          ELSE <<>>) \o NotesFor(Tail(comments), r)

DistinctLines(comments) ==
    \A m, n \in 1..Len(comments) : m # n => comments[m].line # comments[n].line

\* C33. Applying inline annotations never shifts line indices: the function
\* keeps its number of lines, every line holds its own text followed by the
\* annotations that name it (all of them, when several name one line) and no
\* other, and annotations on distinct lines give the same lines in whatever
\* order they are applied.
C33_NoShift ==
    apc = "applied" =>
        /\ Len(alines) = Len(cleaned_before)
        /\ \A r \in 1..Len(cleaned_before) :
              alines[r] = IF NotesFor(inline_comments, r) = <<>>
                          THEN cleaned_before[r]
                          ELSE RStripCRLF(cleaned_before[r])
                                  \o NotesFor(inline_comments, r) \o <<NL>>
        /\ DistinctLines(inline_comments) =>
              \A order \in Orderings(1..Len(inline_comments)) :
                  ApplyComments(cleaned_before, Permute(inline_comments, order)) = alines

\* two annotations with different texts were applied to the first of several
\* lines
C33_Witness ==
    /\ apc = "applied"
    /\ Len(cleaned_before) > 1
    /\ Len(inline_comments) = 2
    /\ inline_comments[1].line = 1
    /\ inline_comments[2].line = 1
    /\ inline_comments[1].comment # inline_comments[2].comment
    /\ alines[1] # cleaned_before[1]

-----------------------------------------------------------------------------
(* Properties of the summary extraction *)

\* where the text sub stands in s, counted from 1
Occurrences(s, sub) ==
    {k \in 1..(Len(s) - Len(sub) + 1) : SubSeq(s, k, k + Len(sub) - 1) = sub}

Opens == Occurrences(dox_response, <<"/", "*", "*">>)

FirstOpen == CHOOSE k \in Opens : \A m \in Opens : k <= m

\* the close markers at or after the first open marker
Closes == {k \in Occurrences(dox_response, <<"*", "/">>) : k >= FirstOpen}

FirstClose == CHOOSE k \in Closes : \A m \in Closes : k <= m

\* C21. Summary extraction: the doc block is the text from the first '/**'
\* through the first '*/' at or after it, and nothing when a marker is
\* absent; what is spliced in is empty or one block comment that starts with
\* '/**', ends with '*/' and holds no earlier '*/'.
C21_SummaryExtraction ==
    epc = "extracted" =>
        IF Opens = {} \/ Closes = {}
        THEN doc_block = <<>> /\ doc_lines = <<>>
        ELSE /\ doc_block = SubSeq(dox_response, FirstOpen, FirstClose + 1) \o <<NL>>
             /\ StartsWith(doc_block, <<"/", "*", "*">>)
             /\ Occurrences(doc_block, <<"*", "/">>) = {Len(doc_block) - 2}
             /\ Concat(doc_lines) = doc_block

\* an answer with a close marker before its first open marker, and a block
C21_Witness ==
    /\ epc = "extracted"
    /\ Opens # {}
    /\ \E k \in Occurrences(dox_response, <<"*", "/">>) : k < FirstOpen
    /\ doc_block # <<>>

-----------------------------------------------------------------------------
(* Properties of the worker threads *)

Active == {w \in Workers : workers[w].pc \in {"running", "read"}}

\* C25. Review-log updates are serialized: at most one processing run is
\* active at any time, the button being disabled from the click until the
\* worker ends, so the read-modify-write cycles on the log never interleave
\* and no appended review record is lost.
C25_Serialized ==
    /\ Cardinality(Active) <= 1
    /\ generate_button => Active = {}
    /\ review_log = appended

\* the third run has appended its second review after two earlier runs
C25_Witness ==
    /\ Len(review_log) > MaxReviews
    /\ workers[MaxRuns].pc = "running"
    /\ workers[MaxRuns].reviews = MaxReviews

\* the worker threads that have ended
Ended == {w \in Workers : workers[w].pc = "ended"}

\* C37. The Generate button is enabled again when a run is done, however it
\* ended: while the worker of a click runs the button is disabled, and once
\* the worker has ended (refused by the generator, returned, or left by an
\* exception) and no other click was made, the button is enabled.
C37_Reenabled ==
    /\ \A w \in Workers : workers[w].pc \in {"running", "read"} => ~generate_button
    /\ (Ended # {} /\ Active = {}) => generate_button

\* the button is enabled again after a run that was refused and a run that
\* was left by an exception, with a click still to come
C37_Witness ==
    /\ workers[1].ended_by = "refused"
    /\ workers[2].ended_by = "raised"
    /\ workers[MaxRuns].pc = "none"
    /\ Active = {}
    /\ generate_button

-----------------------------------------------------------------------------
(* Properties of run_processing *)

Calls == {"GenerateDoc", "GenerateCodeComment", "GenerateCodeReviewLog"}

\* C15. A malformed generator response never aborts the run: a summarize
\* response without the markers gives no doc block, an inlineAnnotate response
\* that is not a JSON array of annotations gives no inline comments, and in
\* both cases the function is finished and nothing is raised.
C15_Step ==
    /\ (rpc = "doc_response" /\ api_response = "nomarker") =>
          /\ cur_doxygen' = "empty"
          /\ raised' = "none"
          /\ rpc' = "GenerateCodeComment"
    /\ (rpc = "comment_response" /\ api_response \in {"notjson", "badshape"}) =>
          /\ raised' = "none"
          /\ rpc' # "aborted"
          /\ edits' = Append(edits, [function |-> CurFunc,
                                     doxygen  |-> cur_doxygen,
                                     comments |-> "empty"])

C15_MalformedNeverAborts == [][C15_Step]_vars

\* what every POST of _call_api does, whatever the claim about the retries
PostBasics ==
    /\ attempt < max_retries
    /\ last_post' = "response" =>
          /\ rpc' = ResponsePc(rpc)
          /\ api_response' \in ResponseKinds(rpc)
          /\ raised' = "none"
    /\ rpc' = ResponsePc(rpc) => last_post' = "response"

Retried ==
    /\ attempt' = attempt + 1
    /\ rpc' = rpc
    /\ raised' = "none"

Fatal ==
    /\ rpc' = "aborted"
    /\ raised' = "ConnectionError"

\* C16. Transport failures of a generator call, an unreachable server as well
\* as a timeout, are retried: _call_api makes at most 3 POST attempts, retries
\* after each failed attempt before the last, raises ConnectionError after the
\* last failed attempt, and never returns without a response.
C16_Step ==
    rpc \in Calls =>
        /\ PostBasics
        /\ (last_post' # "response" /\ attempt < max_retries - 1) => Retried
        /\ (last_post' # "response" /\ attempt = max_retries - 1) => Fatal

C16_TransportRetried == [][C16_Step]_vars

\* C16, amended. _call_api makes at most 3 POST attempts; a timeout is
\* retried before the last attempt and raises ConnectionError on the last;
\* any other request failure raises ConnectionError at once, on whichever
\* attempt it happens; the call never returns without a response.
C16_TimeoutStep ==
    rpc \in Calls =>
        /\ PostBasics
        /\ (last_post' = "Timeout" /\ attempt < max_retries - 1) => Retried
        /\ (last_post' = "Timeout" /\ attempt = max_retries - 1) => Fatal
        /\ last_post' = "RequestException" => Fatal

C16_TimeoutRetried == [][C16_TimeoutStep]_vars

\* the third attempt of a call timed out
C16_Witness ==
    /\ rpc = "aborted"
    /\ raised = "ConnectionError"
    /\ last_post = "Timeout"
    /\ attempt = max_retries - 1

C24_Saved ==
    last_doc_date = "today" =>
        /\ rpc = "done"
        /\ raised = "none"
        /\ fpos = Len(queue)

C24_Kept == rpc \in {"returned", "aborted"} => last_doc_date = "old"

C24_Step ==
    last_doc_date' # last_doc_date =>
        /\ rpc = "finish"
        /\ fpos = Len(queue)
        /\ raised = "none"
        /\ last_doc_date' = "today"

\* C24. The persisted cursor records only successfully processed work:
\* last_doc_date.json is written only at the end of a run in which the
\* generator connection succeeded and every queued file was processed without
\* a fatal error; a run that returns early or aborts leaves the previous
\* value in place.
C24_CursorAfterSuccess == []C24_Saved /\ []C24_Kept /\ [][C24_Step]_vars

\* a run over two files has ended and saved the date
C24_Witness ==
    /\ rpc = "done"
    /\ last_doc_date = "today"
    /\ Len(queue) = 2
    /\ fpos = 2

\* the files of the queue from the one being processed on
Pending == {queue[j].path : j \in (fpos + 1)..Len(queue)}

C19_Aborted ==
    raised \in {"ConnectionError", "IOError"} =>
        /\ rpc = "aborted"
        /\ \A p \in Pending : ~disk[p].written

C19_Step ==
    /\ \A p \in RunPaths : disk[p].written => disk'[p] = disk[p]
    /\ rpc = "aborted" => UNCHANGED <<disk, fpos, npos, edits, log_file, last_doc_date>>

\* C19. A fatal error (generator transport failure or file write failure)
\* while the k-th queued file is processed aborts the run: the k-th file and
\* the files after it are not written, nothing is processed after the error,
\* and every file written earlier keeps the content that was written.
C19_FatalAborts == []C19_Aborted /\ [][C19_Step]_vars

\* the write of the second file failed after the first file was written
C19_Witness ==
    /\ rpc = "aborted"
    /\ raised = "IOError"
    /\ fpos = 1
    /\ disk[queue[1].path].written
    /\ Len(queue) = 2

C30_Unwritten ==
    rpc = "aborted" => /\ fpos < Len(queue)
                       /\ ~disk[CurFile.path].written

C30_Step ==
    \A p \in RunPaths :
        disk'[p] # disk[p] =>
            /\ ~disk[p].written
            /\ rpc = "write"
            /\ p = CurFile.path
            /\ npos = Len(CurFile.funcs)
            /\ disk'[p] = [written |-> TRUE, edits |-> edits]

\* C30. The write of a file is atomic within a run: a source file is written
\* at most once, only after all of its changed functions have been processed,
\* with the whole buffer; when processing a function of the file raises, the
\* file on disk is still unwritten, so it has the content it had before.
C30_WrittenOnceAfterAll == []C30_Unwritten /\ [][C30_Step]_vars

\* the second function of the second file raised after the first function of
\* that file was replaced in the buffer and the first file was written
C30_Witness ==
    /\ rpc = "aborted"
    /\ raised = "TypeError"
    /\ fpos = 1
    /\ npos = 1
    /\ edits # <<>>
    /\ disk[queue[1].path].written
    /\ ~disk[queue[2].path].written

\* C20. The review log is read fail-soft everywhere: a missing or corrupt
\* code_review_log.json counts as an empty list when the reviewed functions
\* are loaded and at each append, a corrupt log never aborts the run, and the
\* records of a valid log are still there, in order, after an append.
C20_Step ==
    /\ rpc = "load" =>
          /\ reviewed_funcs' = IF log_file.kind = "list"
                               THEN ReviewedFuncs(log_file.entries) ELSE {}
          /\ raised' = "none"
    /\ (rpc = "review_response" /\ api_response # "badshape") =>
          LET before == IF log_file.kind = "list" THEN log_file.entries ELSE <<>> IN
          /\ raised' = "none"
          /\ log_file'.kind = "list"
          /\ Len(log_file'.entries) = Len(before) + 1
          /\ SubSeq(log_file'.entries, 1, Len(before)) = before
          /\ log_file'.entries[Len(before) + 1].file = CurFile.path
          /\ log_file'.entries[Len(before) + 1].function = CurFunc

C20_ReviewLogFailSoft == [][C20_Step]_vars

-----------------------------------------------------------------------------
(* Properties of collect_files_to_process *)

\* the path of the last iteration was appended to the queue
QueuedLast ==
    /\ Len(files_to_process) > 0
    /\ files_to_process[Len(files_to_process)].path = cpos

\* the functions the differ sees in a snapshot that was retrieved, none otherwise
SeenIn(content) == IF content.ok THEN ExtractFunctions(content.functions) ELSE <<>>

\* the path of the last iteration has an added or a modified function
HasChangedFunction ==
    LET old == SeenIn(cpath.old_content)
        new == SeenIn(cpath.new_content)
    IN  \E k \in DOMAIN new : k \notin DOMAIN old \/ old[k][1] # new[k][1]

\* C11. Only added and modified functions drive re-documentation: a function
\* is spliced only if its key is in added union modified for its file; a path
\* with status Deleted and a file with no added or modified function are
\* never queued, and process_file is called for queued files only.
C11_OnlyChangedDrive ==
    /\ \A i \in 1..Len(handled) :
          /\ handled[i].path = files_to_process[i].path
          /\ \A n \in 1..Len(handled[i].spliced) :
                files_to_process[i].new_content[handled[i].spliced[n].index].key
                    \in changed_of[i]
    /\ (cpos >= 1 /\ (cpath.status = "D" \/ ~HasChangedFunction)) => ~QueuedLast

\* the snapshots that differ from content in the start lines only
Relined(content) ==
    {c \in FunctionLists :
        /\ Len(c) = Len(content)
        /\ \A i \in 1..Len(c) : c[i].key = content[i].key /\ c[i].hash = content[i].hash}

\* the classification of the path of the last iteration is the same for every
\* choice of start lines
C23_ClassificationLineFree ==
    (cpos >= 1 /\ cpath.new_content.ok) =>
        \A c \in Relined(cpath.new_content.functions) :
            LET r   == [cpath EXCEPT !.new_content = Content(c)]
                old == OldFunctionsOf(cpath)
                new == ExtractFunctions(cpath.new_content.functions)
                alt == ExtractFunctions(c)
            IN  /\ ChangedKeysOf(r) = ChangedKeysOf(cpath)
                /\ AddedKeys(old, alt) = AddedKeys(old, new)
                /\ ModifiedKeys(old, alt) = ModifiedKeys(old, new)
                /\ DeletedKeys(old, alt) = DeletedKeys(old, new)

\* the function of the new snapshot has the same declarator and the same
\* text in the old snapshot of the last path, on another line
ShiftedOnly(f) ==
    /\ cpath.status = "M"
    /\ cpath.old_content.ok
    /\ \E j \in 1..Len(cpath.old_content.functions) :
          /\ cpath.old_content.functions[j].key = f.key
          /\ cpath.old_content.functions[j].hash = f.hash
          /\ cpath.old_content.functions[j].line # f.line

\* C23. Change classification does not depend on line positions: snapshots
\* that differ in start lines only give the same added, modified and deleted
\* sets, and a function whose text is the same in both revisions and whose
\* start line has shifted is not re-documented.
C23_LineIndependent ==
    /\ C23_ClassificationLineFree
    /\ \A i \in 1..Len(handled) :
          handled[i].path = NumPaths =>
              \A n \in 1..Len(handled[i].spliced) :
                  ~ShiftedOnly(files_to_process[i].new_content[handled[i].spliced[n].index])

\* the path of the last iteration was read: it has a C++ extension, is not
\* deleted and its new snapshot was retrieved
ReadLast ==
    /\ cpos >= 1
    /\ cpath.cxx
    /\ cpath.status # "D"
    /\ cpath.new_content.ok

\* the function definitions of the old snapshot the differ compares with
OldDefinitions ==
    IF cpath.status = "M" /\ cpath.old_content.ok THEN cpath.old_content.functions
    ELSE <<>>

\* the function is new, or its text differs from that of every function of
\* the old snapshot with its declarator
NewOrDiffers(f) ==
    \A j \in 1..Len(OldDefinitions) :
        OldDefinitions[j].key = f.key => OldDefinitions[j].hash # f.hash

\* the start lines queued for the path of the last iteration
QueuedLines ==
    IF QueuedLast
    THEN LET cl == files_to_process[Len(files_to_process)].changed_lines
         IN  {cl[k] : k \in 1..Len(cl)}
    ELSE {}

\* no two functions of the snapshot have the same declarator text
DistinctKeys(content) ==
    \A i, j \in 1..Len(content) : i # j => content[i].key # content[j].key

C27_Detected ==
    \A i \in 1..Len(cpath.new_content.functions) :
        NewOrDiffers(cpath.new_content.functions[i]) =>
            cpath.new_content.functions[i].line \in QueuedLines

\* C27. Every changed function is detected: each function definition of the
\* new snapshot that is new or whose text differs from its counterpart in the
\* old snapshot has its start line in changed_lines, also when several
\* functions of the file have the same declarator text; ExtractFunctions
\* holds one record per function.
C27_EveryChangedDetected ==
    ReadLast =>
        /\ C27_Detected
        /\ Cardinality(DOMAIN ExtractFunctions(cpath.new_content.functions))
               = Len(cpath.new_content.functions)

\* the same for snapshots in which every declarator text occurs once
C27_DetectedDistinctKeys ==
    (/\ ReadLast
     /\ DistinctKeys(cpath.new_content.functions)
     /\ DistinctKeys(OldDefinitions)) => C27_Detected

\* C28. Each changed function is edited exactly once per run: the nodes
\* process_file finds for a queued file never hold the same function
\* definition twice, also when two changed keys have the same start line.
C28_EditedOnce ==
    \A i \in 1..Len(handled) :
        \A m, n \in 1..Len(handled[i].spliced) :
            m # n => handled[i].spliced[m] # handled[i].spliced[n]

\* C17. Snapshot retrieval failure skips the file: when the new or the old
\* snapshot of a changed path cannot be retrieved the path is not queued, and
\* the remaining paths are still examined.
C17_FailureSkips ==
    /\ (/\ cpos >= 1
        /\ cpath.cxx
        /\ \/ ~cpath.new_content.ok
           \/ cpath.status = "M" /\ ~cpath.old_content.ok) => ~QueuedLast
    /\ cpc # "collect" => cpos = NumPaths

\* C17 as the code has it: a path whose new snapshot cannot be retrieved is not
\* queued; a modified path whose old snapshot cannot be retrieved is treated
\* as having no old functions, so it is queued exactly when its new snapshot
\* has a function, with every function counted as changed; either way the
\* remaining paths are still examined.
C17_NewFailureSkips ==
    /\ (cpos >= 1 /\ ~cpath.new_content.ok) => ~QueuedLast
    /\ (/\ cpos >= 1
        /\ cpath.cxx
        /\ cpath.status = "M"
        /\ cpath.new_content.ok
        /\ ~cpath.old_content.ok) =>
           /\ QueuedLast <=> Len(cpath.new_content.functions) > 0
           /\ QueuedLast =>
                 changed_of[Len(changed_of)] =
                     {cpath.new_content.functions[i].key :
                          i \in 1..Len(cpath.new_content.functions)}
    /\ cpc # "collect" => cpos = NumPaths

\* the old snapshot of the second path is missing: the path is queued and
\* process_file has found its functions; the first path was skipped
C17_Witness ==
    /\ cpc = "done"
    /\ cpath.cxx
    /\ cpath.status = "M"
    /\ cpath.new_content.ok
    /\ ~cpath.old_content.ok
    /\ Len(files_to_process) = 1
    /\ QueuedLast
    /\ Len(handled[1].spliced) > 0

-----------------------------------------------------------------------------
(* Properties of the differ *)

\* keys of both snapshots whose hashes are equal
UnchangedKeys == {k \in KeySet(old_functions) \cap KeySet(new_functions) :
                     old_functions[k][1] = new_functions[k][1]}

\* C10. Differ partition law: added, deleted, modified and unchanged are
\* pairwise disjoint and their union is keys(old) union keys(new); the
\* changed set of collect_files_to_process is added union modified, inside
\* keys(new).
C10_PartitionLaw ==
    /\ dpc = "printed" =>
          /\ added_keys \cap deleted_keys = {}
          /\ added_keys \cap modified_keys = {}
          /\ added_keys \cap UnchangedKeys = {}
          /\ deleted_keys \cap modified_keys = {}
          /\ deleted_keys \cap UnchangedKeys = {}
          /\ modified_keys \cap UnchangedKeys = {}
          /\ added_keys \cup deleted_keys \cup modified_keys \cup UnchangedKeys
                 = KeySet(old_functions) \cup KeySet(new_functions)
    /\ dpc = "collected" =>
          /\ added_keys \cap modified_keys = {}
          /\ added_keys \cap UnchangedKeys = {}
          /\ modified_keys \cap UnchangedKeys = {}
          /\ changed_keys \cup UnchangedKeys = KeySet(new_functions)

\* one key in each of added, deleted and modified
C10_Witness ==
    /\ dpc = "printed"
    /\ added_keys # {}
    /\ deleted_keys # {}
    /\ modified_keys # {}

-----------------------------------------------------------------------------
(* Properties of the review log across runs *)

NoDuplicates(seq) == \A m, n \in 1..Len(seq) : m # n => seq[m] # seq[n]

LoggedPairs == [k \in 1..Len(stored_log) |-> <<stored_log[k].file, stored_log[k].function>>]

\* C32. The review record identity (file, function) prevents redundant work:
\* over any sequence of runs a (file, function) pair is sent to the generator
\* for review at most once, and code_review_log.json never holds two records
\* with the same (file, function).
C32_ReviewedOnce == NoDuplicates(sent_reviews) /\ NoDuplicates(LoggedPairs)

-----------------------------------------------------------------------------
(* Properties of GetFunctionInfo *)

\* C34. GetFunctionInfo computes correct line ranges for every file content:
\* start_line and end_line are the 0-based rows of the first and of the last
\* line of the function.
C34_LineRanges ==
    ipc = "done" =>
        \A k \in 1..Len(func_nodes) :
            /\ function_info[k].start_line = func_nodes[k].start_row
            /\ function_info[k].end_line = func_nodes[k].end_row

\* what holds: the ranges are right when every character of the file is
\* encoded in one byte
C34_LineRangesOneByte ==
    (ipc = "done" /\ \A i \in 1..Len(original_code) : original_code[i] # "U") =>
        \A k \in 1..Len(func_nodes) :
            /\ function_info[k].start_line = func_nodes[k].start_row
            /\ function_info[k].end_line = func_nodes[k].end_row

-----------------------------------------------------------------------------
(* Properties of the line buffer *)

\* the physical lines of the file: row r is what follows the r-th newline
PhysicalLines == SplitLinesAtNewline(source_text)

\* C35. Parser rows and buffer indices agree: the slice of the buffer taken
\* for a node, lines[start_row : end_row + 1], is exactly the physical lines
\* of the file from the first to the last row of the function.
C35_RowsAgree ==
    kpc = "sliced" =>
        taken_lines = Slice(PhysicalLines, fnode.start_row, fnode.end_row + 1)

\* what holds: they agree when every line of the file ends with a newline or
\* with a carriage return and a newline
C35_RowsAgreeNewlines ==
    (/\ kpc = "sliced"
     /\ \A i \in 1..Len(source_text) :
           /\ source_text[i] # "\f"
           /\ source_text[i] = "\r" => (i < Len(source_text) /\ source_text[i + 1] = NL)) =>
        taken_lines = Slice(PhysicalLines, fnode.start_row, fnode.end_row + 1)

-----------------------------------------------------------------------------
(* Properties of the batch driver *)

\* the status the list holds for a file
StatusOf(list, path) ==
    LET k == CHOOSE n \in 1..Len(list) : ParseLine(list[n]).file_path = path
    IN  ParseLine(list[k]).status

\* the calls of ProcessFile of the run in progress for a file
CallsFor(path) ==
    {n \in 1..Len(processed) :
        processed[n].run = batch_runs /\ processed[n].file_path = path}

\* at the end of a run every file that had no status at its start was
\* processed once and is marked by the outcome; no other file was processed
C36_RunDone ==
    bpc = "complete" =>
        \A k \in 1..Len(file_status) :
            LET path == file_status[k].file_path IN
            IF file_status[k].status = NoStatus
            THEN /\ Cardinality(CallsFor(path)) = 1
                 /\ \A n \in CallsFor(path) :
                       StatusOf(file_list, path) =
                           IF processed[n].outcome = "returned" THEN "SUCCESS" ELSE "FAILURE"
            ELSE /\ CallsFor(path) = {}
                 /\ StatusOf(file_list, path) = file_status[k].status

\* ProcessFile is called for files without a status only; the list keeps its
\* files, and a step changes at most the line of the file it processed
C36_Step ==
    /\ Len(file_list') = Len(file_list)
    /\ \A k \in 1..Len(file_list) :
          /\ ParseLine(file_list'[k]).file_path = ParseLine(file_list[k]).file_path
          /\ file_list'[k] # file_list[k] =>
                /\ Len(processed') = Len(processed) + 1
                /\ processed'[Len(processed')].file_path = ParseLine(file_list[k]).file_path
    /\ Len(processed') > Len(processed) =>
          StatusOf(file_list, processed'[Len(processed')].file_path) = NoStatus

\* C36. Resumable batch processing: a file is processed in a run if and only
\* if its entry in the list has no status; every file pending at the start of
\* a run that comes to its end was processed once and is marked SUCCESS or
\* FAILURE by the outcome, whatever the outcome of the files before it;
\* UpdateFileStatus changes the entry of the named file only; a file with a
\* status is never processed again.
C36_Resumable == []C36_RunDone /\ [][C36_Step]_vars

\* a second run came to its end after the first had one file fail, another
\* succeed and was interrupted in a third, which the second run processed
C36_Witness ==
    /\ bpc = "complete"
    /\ batch_runs = 2
    /\ Len(processed) = 4
    /\ processed[1].outcome = "raised"
    /\ processed[2].outcome = "returned"
    /\ processed[3].outcome = "interrupted"
    /\ processed[4].run = 2
    /\ processed[4].file_path = processed[3].file_path

=============================================================================
